---- MODULE Spec2Model ----
(***************************************************************************)
(* Avito -> FastAPI webhook -> OpenAI Assistants -> reply in the Avito     *)
(* chat.  The repository holds two variants of the server:                 *)
(*   "bot"   : src/avito_ai_assistant_bot.py                               *)
(*   "admin" : src/avito_ai_assistant_bot_admin.py                         *)
(* The variable `variant` fixes which one a behaviour is about.            *)
(*                                                                         *)
(* Text is a sequence of one-character strings.  Fixed literals of the     *)
(* source are single tokens (written in ASCII).  Time is counted in tenths *)
(* of a second.                                                            *)
(***************************************************************************)
EXTENDS Integers, Sequences, FiniteSets, TLC

\* ---------------------------------------------------------------- bounds
\* webhook deliveries per behaviour; each one is handled by its own
\* background task
NTasks == 2
\* longest instruction text explored by the settings specification
MaxInstrLen == 3
\* longest buyer text explored by the message specification
MaxTextLen == 2
\* uploaded documents per behaviour
MaxFiles == 2
\* requests to the admin API per behaviour of SpecAll
MaxAdminCalls == 1
\* longest duration of one runs.retrieve call explored by SpecPoll (tenths of s)
MaxLatency == 6
\* duration of one runs.retrieve call under Spec (tenths of s); twice that
\* under SpecAll
SlowCall == 100
\* pieces concatenated into one assistant text by the reply specification
MaxPieces == 3
\* how far below and above the reply limit the long texts go
MaxOver == 1

\* ------------------------------------------------------ program constants
\* time.sleep(1.2)
PollInterval == 12
\* bot: time.time() - started > 18
DeadlineBot == 180
\* admin: time.time() - started > 15
DeadlineAdmin == 150
\* messages.list(..., limit=10)
ListLimit == 10
\* return reply[:1000]
ReplyLimit == 1000

Variants == {"bot", "admin"}
Tasks == 1..NTasks

\* ------------------------------------------------------------------ text
Chars == {" ", "\n", "a"}
Str(n) == UNION {[1..k -> Chars] : k \in 0..n}

\* str.strip() removes leading and trailing whitespace
IsSpace(c) == c \in {" ", "\n", "\t", "\r"}

RECURSIVE lstrip(_)
lstrip(s) == IF s = <<>> THEN s
             ELSE IF IsSpace(Head(s)) THEN lstrip(Tail(s)) ELSE s

RECURSIVE rstrip(_)
rstrip(s) == IF s = <<>> THEN s
             ELSE IF IsSpace(s[Len(s)]) THEN rstrip(SubSeq(s, 1, Len(s) - 1)) ELSE s

strip(s) == rstrip(lstrip(s))

\* s is a prefix of t
IsPrefix(s, t) == Len(s) <= Len(t) /\ SubSeq(t, 1, Len(s)) = s

\* s occurs in t as a contiguous piece
Contains(s, t) ==
    \E i \in 0..(Len(t) - Len(s)) : SubSeq(t, i + 1, i + Len(s)) = s

\* Optional values keep the type of the value: None and an absent key of a
\* text are marker texts, None of an id is 0.
None == <<"<None>">>
Missing == <<"<missing>">>
NoThread == 0
NoId == ""

\* Python truthiness of an optional text
Truthy(x) == x # None /\ x # <<>>

\* ------------------------------------------------------ sqlite key-value
\* A table is a function from its keys to the stored value; a key without a
\* row maps to None (texts), NoId (ids) or NoThread (thread ids).

\* db_get: SELECT value FROM table WHERE key=?  ->  row[0] if row else None
db_get(table, key) == table[key]

\* db_set: INSERT ... ON CONFLICT(key) DO UPDATE SET value=excluded.value
db_set(table, key, value) == [table EXCEPT ![key] = value]


\* a threads table without the PRIMARY KEY
InsertNeverRaises(table, chat_id) == FALSE

\* INSERT INTO threads(chat_id, thread_id): chat_id is the PRIMARY KEY, so the
\* statement raises IntegrityError when a row for chat_id exists
InsertRaises(table, chat_id) == table[chat_id] # NoThread

InsertRow(table, chat_id, thread_id) == [table EXCEPT ![chat_id] = thread_id]

\* ---------------------------------------------------------- instructions
\* admin: DEFAULT_INSTRUCTIONS, the fixed persona text
DEFAULT_INSTRUCTIONS == <<"<DEFAULT_INSTRUCTIONS>">>

\* bot: build_system_instructions(), a fixed text
build_system_instructions == <<"<build_system_instructions>">>

\* bot: the instructions ensure_assistant_id gives an assistant it creates
CREATED_ASSISTANT_INSTRUCTIONS == <<"<created assistant instructions>">>


\* an override taken as it is stored, blank or not
EffectiveUntrimmed(saved) ==
    IF Truthy(saved) THEN saved ELSE DEFAULT_INSTRUCTIONS

\* admin: saved if (saved and saved.strip()) else DEFAULT_INSTRUCTIONS
EffectiveOf(saved) ==
    IF Truthy(saved) /\ strip(saved) # <<>> THEN saved ELSE DEFAULT_INSTRUCTIONS

get_effective_instructions(settingsTable) ==
    EffectiveOf(db_get(settingsTable, "instructions"))

\* A PUT /settings body is a record: body (FALSE: no JSON object), instructions
\* (Missing: key absent, None, or a text) and bot_enabled ("missing" or the
\* value as written).

\* admin put_settings: (payload or {}).get("instructions", "") or ""
PutValue(payload) ==
    IF ~payload.body THEN <<>>
    ELSE IF payload.instructions = Missing THEN <<>>
    ELSE IF Truthy(payload.instructions) THEN payload.instructions
    ELSE <<>>

\* bot admin_put_settings: isinstance(val, str) -> val.strip().lower() not in
\* {"0","false","no","off"}; else bool(val).  The value is written as sent:
\* "False" and "None" are the JSON values false and null.
ParseEnabled(val) == val \notin {"0", "false", "no", "off", "False", "None"}

\* -------------------------------------------------------- message content
\* "\n\n[Источник: Авито-чат "
SRC_OPEN == <<"\n", "\n", "[Istochnik: Avito-chat ">>
SRC_CLOSE == <<"]">>
\* '\nКонтекст объявления: "'
CTX_OPEN == <<"\n", "Kontekst objavlenija: ", "\"">>
\* '" | Цена: '
CTX_PRICE == <<"\"", " | Cena: ">>
CTX_URL == <<" | URL: ">>
CTX_CLOSE == <<"\n">>

\* A listing context is a record: kind ("None", "empty" for {}, or "dict"),
\* type (the value of ctx["type"], "missing" when absent), hasValue (whether
\* ctx["value"] is a non-empty dict) and its title, price_string and url
\* (Missing when absent).
NoCtx == [kind |-> "None", type |-> "missing", hasValue |-> FALSE,
          title |-> Missing, price_string |-> Missing, url |-> Missing]

\* v.get(field, default) with v = ctx.get("value") or {}
CtxGet(ctx, field, default) ==
    IF ~ctx.hasValue THEN default
    ELSE IF ctx[field] = Missing THEN default ELSE ctx[field]


\* a listing block written only for a context that carries a value
ListingBlockNeedsValue(ctx) ==
    IF ctx.kind = "dict" /\ ctx.type = "item" /\ ctx.hasValue
    THEN CTX_OPEN \o CtxGet(ctx, "title", <<>>)
         \o CTX_PRICE \o CtxGet(ctx, "price_string", <<"-">>)
         \o CTX_URL \o CtxGet(ctx, "url", <<"-">>) \o CTX_CLOSE
    ELSE <<>>

\* extra = "" unless ctx and ctx.get("type") == "item"
ListingBlock(ctx) ==
    IF ctx.kind = "dict" /\ ctx.type = "item"
    THEN CTX_OPEN \o CtxGet(ctx, "title", <<>>)
         \o CTX_PRICE \o CtxGet(ctx, "price_string", <<"-">>)
         \o CTX_URL \o CtxGet(ctx, "url", <<"-">>) \o CTX_CLOSE
    ELSE <<>>

Annotation(chat_id) == SRC_OPEN \o chat_id \o SRC_CLOSE

\* content=f"{buyer_text}\n\n[Источник: Авито-чат {chat_id}]{extra}"
BuildMessage(buyer_text, chat_id, ctx) ==
    buyer_text \o Annotation(chat_id) \o ListingBlock(ctx)

\* webhook: ctx = {"type": "item", "value": {...}} if item_id else None
ItemCtx(item_id) ==
    IF item_id = None THEN NoCtx
    ELSE [kind |-> "dict", type |-> "item", hasValue |-> TRUE,
          title |-> <<>>, price_string |-> <<>>,
          url |-> <<"https://avito.ru/">> \o item_id]

\* ------------------------------------------------------------- webhook
\* A delivery is a record: json (FALSE: the body is not JSON), ptype
\* (payload.type), and the fields of payload.value: chat_id, user_id (the
\* receiving account), author_id, mtype (value.type), text (content.text) and
\* item_id; an absent field is None.
Event(chat, author, mtype, text, item) ==
    [json |-> TRUE, ptype |-> "message", chat_id |-> chat, user_id |-> <<"acct">>,
     author_id |-> author, mtype |-> mtype, text |-> text, item_id |-> item]

ChatIds == {<<"c", "1">>, <<"c", "2">>}

\* buyer_text = (content.get("text") or "").strip()
BuyerText(e) == IF Truthy(e.text) THEN strip(e.text) ELSE <<>>

\* filters that let the account's own messages through
AcceptsOwn(e) ==
    /\ e.ptype = "message"
    /\ Truthy(e.chat_id) /\ Truthy(e.user_id)
    /\ e.mtype = "text"
    /\ BuyerText(e) # <<>>

\* the filters of handle(): only an incoming text of a buyer passes
Accepts(e) ==
    /\ e.ptype = "message"
    /\ Truthy(e.chat_id) /\ Truthy(e.user_id)
    /\ e.author_id # e.user_id
    /\ e.mtype = "text"
    /\ BuyerText(e) # <<>>

\* the deliveries explored by Spec
Events ==
    { Event(<<"c", "1">>, <<"buyer">>, "text", <<"a">>, None),
      Event(<<"c", "2">>, <<"buyer">>, "text", <<" ", "a">>, <<"7">>),
      Event(<<"c", "1">>, <<"acct">>, "text", <<"a">>, None),
      [Event(<<"c", "1">>, <<"buyer">>, "text", <<"a">>, None)
          EXCEPT !.json = FALSE],
      [Event(<<"c", "1">>, <<"buyer">>, "text", <<"a">>, None)
          EXCEPT !.ptype = "read"],
      [Event(<<"c", "1">>, <<"buyer">>, "text", <<"a">>, None)
          EXCEPT !.user_id = None],
      Event(None, <<"buyer">>, "text", <<"a">>, None),
      Event(<<"c", "1">>, <<"buyer">>, "image", <<"a">>, None),
      Event(<<"c", "1">>, <<"buyer">>, "text", None, None),
      Event(<<"c", "1">>, <<"buyer">>, "text", <<" ", "\n">>, None) }

\* ---------------------------------------------------------------- state
VARIABLES
    variant,      \* which server runs: "bot" or "admin"
    assistantId,  \* global ASSISTANT_ID
    botEnabled,   \* bot: global BOT_ENABLED
    envVs,        \* bot: VECTOR_STORE_ID of the environment
    threads,      \* sqlite table threads: chat_id -> thread_id
    settings,     \* admin: sqlite table settings: key -> value
    kv,           \* admin: sqlite table kv: key -> value
    bthreads,     \* backend: the threads created, each with its messages
    runs,         \* backend: the run of each task
    asst,         \* backend: the assistant object
    nVs,          \* backend: vector stores created
    files,        \* backend: the uploaded documents
    task,         \* the background task of each delivery
    outbox,       \* messages sent to Avito chats
    resp,         \* the last response of the admin API
    calls,        \* requests made to the admin API
    lats,         \* durations a runs.retrieve call can take
    outs,         \* terminal states the backend brings a run to
    arg, res      \* input and result of a function applied on its own

vars == <<variant, assistantId, botEnabled, envVs, threads, settings, kv,
          bthreads, runs, asst, nVs, files, task, outbox, resp, calls, lats,
          outs, arg, res>>

envVars == <<variant, envVs, lats, outs, calls>>
dbVars == <<threads, settings, kv>>
fileVars == <<nVs, files>>
pureVars == <<arg, res>>
handlerVars == <<task, runs, bthreads, outbox>>

Terminal == {"completed", "failed", "cancelled", "expired"}

NoRun == [thread |-> NoThread, additional |-> None, assistant |-> None,
          status |-> "none"]

IdleTask == [pc |-> "idle", out |-> "none", chat |-> None, user |-> None,
             text |-> <<>>, ctx |-> NoCtx, tid |-> NoThread, instr |-> None,
             elapsed |-> 0, last |-> "none", reply |-> None,
             fresh |-> {}, ack |-> "none"]

DoneTask(out) == [IdleTask EXCEPT !.pc = "done", !.out = out]

\* the webhook has answered {"ok": true} and is done with the delivery
Dropped(out) == [DoneTask(out) EXCEPT !.ack = "ok"]

\* a handler ends: what the webhook answered stays as it was
Ended(tk, out) == [DoneTask(out) EXCEPT !.ack = tk.ack]

\* A response of the admin API: the operation, the HTTP status, the
\* instructions field (settings) and the rows of data / uploaded (files).
Resp(op, code) == [op |-> op, code |-> code, instructions |-> None, data |-> <<>>]

NoResp == Resp("none", 0)

NoAsst == [instructions |-> None, vs |-> {}]

\* the state after start-up; enabled is BOT_ENABLED as read from the
\* environment
InitServer(enabled) ==
    /\ variant \in Variants
    /\ assistantId \in {NoId, "asst_1"}
    /\ botEnabled = enabled
    /\ threads = [c \in ChatIds |-> NoThread]
    /\ settings = [k \in {"instructions"} |-> None]
    /\ kv = [k \in {"vector_store_id"} |-> NoId]
    /\ bthreads = <<>>
    /\ runs = [t \in Tasks |-> NoRun]
    /\ asst = IF assistantId = NoId THEN NoAsst
              ELSE [instructions |-> <<"<assistant instructions>">>,
                    vs |-> {"vs_old"}]
    /\ nVs = 0
    /\ files = <<>>
    /\ task = [t \in Tasks |-> IdleTask]
    /\ outbox = <<>>
    /\ resp = NoResp
    /\ calls = 0
    /\ arg = None
    /\ res = None

\* BOT_ENABLED is not set in the environment: the bot is enabled
InitCommon == InitServer(TRUE)

\* The handlers and the settings API: every retrieve is slow, runs complete
\* or fail, the bot has VECTOR_STORE_ID set.
Init ==
    /\ InitCommon
    /\ envVs = IF variant = "bot" THEN "vs_env" ELSE NoId
    /\ lats = {SlowCall}
    /\ outs = {"completed", "failed"}

\* ------------------------------------------------------------ helpers
\* the instruction override as stored: admin keeps it in the settings table,
\* bot in the assistant object at the backend
Stored(v, settingsTable, assistant) ==
    IF v = "admin" THEN db_get(settingsTable, "instructions")
    ELSE assistant.instructions

\* History kept for each task that has been dispatched and has not yet
\* created its run: every value the override held since the dispatch.
Track(tk, value) ==
    [t \in Tasks |->
        IF tk[t].pc \in {"ensure_asst", "select", "create", "insert",
                          "append", "instr", "run"}
        THEN [tk[t] EXCEPT !.fresh = @ \cup {value}]
        ELSE tk[t]]

Deadline(v) == IF v = "bot" THEN DeadlineBot ELSE DeadlineAdmin

\* bot: "Спасибо! Сейчас уточню детали и вернусь с ответом."
\* admin: "Спасибо за сообщение! Сейчас уточню детали и вернусь с ответом."
Fallback(v) == IF v = "bot" THEN <<"<fallback bot>">> ELSE <<"<fallback admin>">>

\* what the assistant can write into a thread: the parts of one message
AssistantOutputs == { << [type |-> "text", value |-> <<"a">>] >> }

RECURSIVE Join(_)
\* "\n".join(chunks)
Join(chunks) ==
    IF chunks = <<>> THEN <<>>
    ELSE IF Len(chunks) = 1 THEN chunks[1]
    ELSE chunks[1] \o <<"\n">> \o Join(Tail(chunks))

RECURSIVE TextChunks(_)
\* [part.text.value for part in m.content if part.type == "text"]
TextChunks(parts) ==
    IF parts = <<>> THEN <<>>
    ELSE IF Head(parts).type = "text"
         THEN <<Head(parts).value>> \o TextChunks(Tail(parts))
         ELSE TextChunks(Tail(parts))

RECURSIVE Reverse(_)
Reverse(s) == IF s = <<>> THEN <<>> ELSE Reverse(Tail(s)) \o <<Head(s)>>

\* messages.list(thread_id, order="desc", limit=10)
ListDesc(msgs) ==
    LET d == Reverse(msgs) IN
    IF Len(d) > ListLimit THEN SubSeq(d, 1, ListLimit) ELSE d

RECURSIVE ScanReplyFirstAssistant(_)
\* a scan that ends at the first assistant message, with or without text
ScanReplyFirstAssistant(data) ==
    IF data = <<>> THEN <<>>
    ELSE IF Head(data).role = "assistant"
         THEN strip(Join(TextChunks(Head(data).parts)))
         ELSE ScanReplyFirstAssistant(Tail(data))

RECURSIVE ScanReply(_)
\* the loop over msgs.data: the first assistant message that has text chunks
\* sets reply and ends the loop
ScanReply(data) ==
    IF data = <<>> THEN <<>>
    ELSE IF Head(data).role = "assistant" /\ TextChunks(Head(data).parts) # <<>>
         THEN strip(Join(TextChunks(Head(data).parts)))
         ELSE ScanReply(Tail(data))

\* reply, after "if not reply: reply = <fallback>"
ExtractReply(v, msgs) ==
    LET r == ScanReply(ListDesc(msgs)) IN
    IF r = <<>> THEN Fallback(v) ELSE r

\* ------------------------------------------------------ the final reply
\* the citation brackets, U+3010 and U+3011, as one-character tokens
CITE_OPEN == "[["
CITE_CLOSE == "]]"

IsDigit(c) == c \in {"0", "1", "2", "3", "4", "5", "6", "7", "8", "9"}

\* the smallest position in a set of positions
First(ps) == CHOOSE j \in ps : \A k \in ps : j <= k

\* \d+ from position i: the position after the longest run of digits
DigitsEnd(s, i) ==
    LET stop == {j \in i..Len(s) : ~IsDigit(s[j])} IN
    IF stop = {} THEN Len(s) + 1 ELSE First(stop)

\* the first closing bracket at or after position i, 0 when there is none
CloseAt(s, i) ==
    LET closes == {j \in i..Len(s) : s[j] = CITE_CLOSE} IN
    IF closes = {} THEN 0 ELSE First(closes)

\* the pattern  OPEN \d+ : [^CLOSE]+ CLOSE  tried at position i: the position
\* of the closing bracket of the match, 0 when it does not match there
MatchEnd(s, i) ==
    IF s[i] # CITE_OPEN THEN 0
    ELSE LET d == DigitsEnd(s, i + 1) IN
         IF d = i + 1 THEN 0
         ELSE IF d > Len(s) THEN 0
         ELSE IF s[d] # ":" THEN 0
         ELSE LET e == CloseAt(s, d + 1) IN
              IF e = d + 1 THEN 0 ELSE e

RECURSIVE SubFrom(_, _)
\* re.sub from position i on: one pass, left to right; the text up to the
\* next opening bracket is kept, a match starting there is removed and the
\* pass goes on after it, otherwise the bracket is kept
SubFrom(s, i) ==
    LET opens == {j \in i..Len(s) : s[j] = CITE_OPEN} IN
    IF opens = {} THEN SubSeq(s, i, Len(s))
    ELSE LET j == First(opens)
             e == MatchEnd(s, j) IN
         SubSeq(s, i, j - 1) \o
            (IF e # 0 THEN SubFrom(s, e + 1)
             ELSE <<s[j]>> \o SubFrom(s, j + 1))

\* bot: re.sub(r"OPEN\d+:[^CLOSE]+CLOSE", "", reply)
StripCitations(s) == SubFrom(s, 1)

\* reply[:n]
Cut(s, n) == IF Len(s) > n THEN SubSeq(s, 1, n) ELSE s

\* the reply before the prefix: bot removes the citation markers and strips
\* again, admin leaves the extracted text as it is
CleanReply(v, msgs) ==
    IF v = "bot" THEN strip(StripCitations(ExtractReply(v, msgs)))
    ELSE ExtractReply(v, msgs)

\* a cut applied to the text before the prefix is put in front of it
PostProcessCutFirst(prefix, reply) ==
    IF prefix # <<>> THEN prefix \o Cut(reply, ReplyLimit)
    ELSE Cut(reply, ReplyLimit)

\* if REPLY_PREFIX: reply = f"{REPLY_PREFIX}{reply}"; return reply[:1000]
PostProcess(prefix, reply) ==
    Cut(IF prefix # <<>> THEN prefix \o reply ELSE reply, ReplyLimit)

\* the markers removed after the prefix was put in front
FinalReplyStripLast(v, prefix, msgs) ==
    LET whole == IF prefix # <<>> THEN prefix \o ExtractReply(v, msgs)
                 ELSE ExtractReply(v, msgs)
    IN Cut(IF v = "bot" THEN strip(StripCitations(whole)) ELSE whole, ReplyLimit)

\* what run_assistant_and_get_reply returns for the listed thread
FinalReply(v, prefix, msgs) == PostProcess(prefix, CleanReply(v, msgs))

\* REPLY_PREFIX = os.getenv("REPLY_PREFIX", ""): the handlers run with the
\* default
REPLY_PREFIX == <<>>

Set(t, rec) == task' = [task EXCEPT ![t] = rec]

\* an error of the handler that becomes the answer of the webhook
RaiseToResponse(t) == Set(t, [DoneTask("error") EXCEPT !.ack = "error"])

\* the exception handler of handle(): the error is printed, the task ends
Raise(t) == Set(t, Ended(task[t], "error"))

\* a webhook that drops a delivery of an event another handler is working on
avito_webhook_once(t, e) ==
    /\ task[t].pc = "idle"
    /\ IF t = 1 THEN TRUE ELSE task[t - 1].pc # "idle"
    /\ IF ~e.json THEN Set(t, Dropped("badjson"))
       ELSE IF variant = "bot" /\ ~botEnabled THEN Set(t, Dropped("disabled"))
       ELSE IF ~Accepts(e) THEN Set(t, Dropped("dropped"))
       ELSE IF \E u \in Tasks \ {t} :
                  task[u].chat = e.chat_id /\ task[u].text = BuyerText(e)
       THEN Set(t, Dropped("dropped"))
       ELSE Set(t, [IdleTask EXCEPT
                !.pc = IF variant = "bot" THEN "ensure_asst" ELSE "select",
                !.chat = e.chat_id, !.user = e.user_id,
                !.text = BuyerText(e), !.ctx = ItemCtx(e.item_id),
                !.fresh = {Stored(variant, settings, asst)},
                !.ack = "ok"])
    /\ UNCHANGED <<envVars, dbVars, fileVars, pureVars, assistantId,
                   botEnabled, bthreads, runs, asst, outbox, resp>>

\* a webhook that does not look at BOT_ENABLED
avito_webhook_always(t, e) ==
    /\ task[t].pc = "idle"
    /\ IF t = 1 THEN TRUE ELSE task[t - 1].pc # "idle"
    /\ IF ~e.json THEN Set(t, Dropped("badjson"))
       ELSE IF ~Accepts(e) THEN Set(t, Dropped("dropped"))
       ELSE Set(t, [IdleTask EXCEPT
                !.pc = IF variant = "bot" THEN "ensure_asst" ELSE "select",
                !.chat = e.chat_id, !.user = e.user_id,
                !.text = BuyerText(e), !.ctx = ItemCtx(e.item_id),
                !.fresh = {Stored(variant, settings, asst)},
                !.ack = "ok"])
    /\ UNCHANGED <<envVars, dbVars, fileVars, pureVars, assistantId,
                   botEnabled, bthreads, runs, asst, outbox, resp>>

\* ------------------------------------------------------ webhook handling
\* avito_webhook: the request is answered {"ok": true} and handle() is queued
\* as a background task; the filters of handle() read the delivery alone
avito_webhook(t, e) ==
    /\ task[t].pc = "idle"
    /\ IF t = 1 THEN TRUE ELSE task[t - 1].pc # "idle"
    /\ IF ~e.json THEN Set(t, Dropped("badjson"))
       ELSE IF variant = "bot" /\ ~botEnabled THEN Set(t, Dropped("disabled"))
       ELSE IF ~Accepts(e) THEN Set(t, Dropped("dropped"))
       ELSE Set(t, [IdleTask EXCEPT
                !.pc = IF variant = "bot" THEN "ensure_asst" ELSE "select",
                !.chat = e.chat_id, !.user = e.user_id,
                !.text = BuyerText(e), !.ctx = ItemCtx(e.item_id),
                !.fresh = {Stored(variant, settings, asst)},
                !.ack = "ok"])
    /\ UNCHANGED <<envVars, dbVars, fileVars, pureVars, assistantId,
                   botEnabled, bthreads, runs, asst, outbox, resp>>

\* the assistant ensure_assistant_id creates when ASSISTANT_ID is not set
CreatedAssistant ==
    [instructions |-> CREATED_ASSISTANT_INSTRUCTIONS,
     vs |-> IF envVs # NoId THEN {envVs} ELSE {}]

\* bot: assistant_id = ensure_assistant_id()
ensure_assistant_id(t) ==
    /\ task[t].pc = "ensure_asst"
    /\ \/ /\ assistantId # NoId
          /\ Set(t, [task[t] EXCEPT !.pc = "select"])
          /\ UNCHANGED <<assistantId, asst>>
       \/ /\ assistantId = NoId
          /\ assistantId' = "asst_new"
          /\ asst' = CreatedAssistant
          /\ task' = [Track(task, CREATED_ASSISTANT_INSTRUCTIONS)
                        EXCEPT ![t].pc = "select"]
       \/ /\ assistantId = NoId
          /\ Raise(t)
          /\ UNCHANGED <<assistantId, asst>>
    /\ UNCHANGED <<envVars, dbVars, fileVars, pureVars, botEnabled, bthreads,
                   runs, outbox, resp>>


\* a get_or_create_thread that does not look the chat up
SelectThreadBlind(t) ==
    /\ task[t].pc = "select"
    /\ Set(t, [task[t] EXCEPT !.pc = "create"])
    /\ UNCHANGED <<envVars, dbVars, fileVars, pureVars, assistantId,
                   botEnabled, bthreads, runs, asst, outbox, resp>>

\* get_or_create_thread: SELECT thread_id FROM threads WHERE chat_id=?
SelectThread(t) ==
    /\ task[t].pc = "select"
    /\ LET row == threads[task[t].chat] IN
       IF row # NoThread
       THEN Set(t, [task[t] EXCEPT !.pc = "append", !.tid = row])
       ELSE Set(t, [task[t] EXCEPT !.pc = "create"])
    /\ UNCHANGED <<envVars, dbVars, fileVars, pureVars, assistantId,
                   botEnabled, bthreads, runs, asst, outbox, resp>>


\* a get_or_create_thread that reserves the row before threads.create
CreateThreadReserving(t) ==
    /\ task[t].pc = "create"
    /\ \/ /\ bthreads' = Append(bthreads, [chat |-> task[t].chat, msgs |-> <<>>])
          /\ Set(t, [task[t] EXCEPT !.pc = "insert", !.tid = Len(bthreads) + 1])
          /\ UNCHANGED threads
       \/ /\ Raise(t)
          /\ threads' = InsertRow(threads, task[t].chat, Len(bthreads) + 1)
          /\ UNCHANGED bthreads
    /\ UNCHANGED <<envVars, settings, kv, fileVars, pureVars, assistantId,
                   botEnabled, runs, asst, outbox, resp>>

\* get_or_create_thread: th = openai_client.beta.threads.create()
CreateThread(t) ==
    /\ task[t].pc = "create"
    /\ \/ /\ bthreads' = Append(bthreads, [chat |-> task[t].chat, msgs |-> <<>>])
          /\ Set(t, [task[t] EXCEPT !.pc = "insert", !.tid = Len(bthreads) + 1])
       \/ /\ Raise(t)
          /\ UNCHANGED bthreads
    /\ UNCHANGED <<envVars, dbVars, fileVars, pureVars, assistantId,
                   botEnabled, runs, asst, outbox, resp>>

\* get_or_create_thread: INSERT INTO threads(chat_id, thread_id); commit
InsertThread(t) ==
    /\ task[t].pc = "insert"
    /\ IF InsertRaises(threads, task[t].chat)
       THEN Raise(t) /\ UNCHANGED threads
       ELSE /\ threads' = InsertRow(threads, task[t].chat, task[t].tid)
            /\ Set(t, [task[t] EXCEPT !.pc = "append"])
    /\ UNCHANGED <<envVars, settings, kv, fileVars, pureVars, assistantId,
                   botEnabled, bthreads, runs, asst, outbox, resp>>

UserMessage(t) ==
    [role |-> "user", run |-> 0,
     parts |-> << [type |-> "text",
                   value |-> BuildMessage(task[t].text, task[t].chat,
                                          task[t].ctx)] >>]

\* an append that is repeated after an attempt whose request had reached the
\* backend
AppendMessageRepeated(t) ==
    /\ task[t].pc = "append"
    /\ \/ /\ bthreads' = [bthreads EXCEPT ![task[t].tid].msgs =
                              Append(@, UserMessage(t))]
          /\ Set(t, [task[t] EXCEPT
                !.pc = IF variant = "admin" THEN "instr" ELSE "run"])
       \/ /\ bthreads' = [bthreads EXCEPT ![task[t].tid].msgs =
                              Append(Append(@, UserMessage(t)), UserMessage(t))]
          /\ Set(t, [task[t] EXCEPT
                !.pc = IF variant = "admin" THEN "instr" ELSE "run"])
       \/ /\ Raise(t)
          /\ UNCHANGED bthreads
    /\ UNCHANGED <<envVars, dbVars, fileVars, pureVars, assistantId,
                   botEnabled, runs, asst, outbox, resp>>

\* openai_client.beta.threads.messages.create(thread_id, role="user", content)
AppendMessage(t) ==
    /\ task[t].pc = "append"
    /\ \/ /\ bthreads' = [bthreads EXCEPT ![task[t].tid].msgs =
                              Append(@, UserMessage(t))]
          /\ Set(t, [task[t] EXCEPT
                !.pc = IF variant = "admin" THEN "instr" ELSE "run"])
       \/ /\ Raise(t)
          /\ UNCHANGED bthreads
    /\ UNCHANGED <<envVars, dbVars, fileVars, pureVars, assistantId,
                   botEnabled, runs, asst, outbox, resp>>


\* instructions read once, when the server starts
ReadInstructionsCached(t) ==
    /\ task[t].pc = "instr"
    /\ Set(t, [task[t] EXCEPT !.pc = "run", !.instr = EffectiveOf(None)])
    /\ UNCHANGED <<envVars, dbVars, fileVars, pureVars, assistantId,
                   botEnabled, bthreads, runs, asst, outbox, resp>>

\* admin: instructions = get_effective_instructions()
ReadInstructions(t) ==
    /\ task[t].pc = "instr"
    /\ Set(t, [task[t] EXCEPT !.pc = "run",
                              !.instr = get_effective_instructions(settings)])
    /\ UNCHANGED <<envVars, dbVars, fileVars, pureVars, assistantId,
                   botEnabled, bthreads, runs, asst, outbox, resp>>

\* the additional_instructions argument of runs.create
AdditionalInstructions(t) ==
    IF variant = "bot" THEN build_system_instructions ELSE task[t].instr

\* a run created on the newest thread of the backend
CreateRunOnNewest(t) ==
    /\ task[t].pc = "run"
    /\ \/ /\ assistantId # NoId
          /\ runs' = [runs EXCEPT ![t] =
                [thread |-> Len(bthreads),
                 additional |-> AdditionalInstructions(t),
                 assistant |-> asst.instructions,
                 status |-> "queued"]]
          /\ Set(t, [task[t] EXCEPT !.pc = "poll", !.elapsed = 0])
       \/ /\ Raise(t)
          /\ UNCHANGED runs
    /\ UNCHANGED <<envVars, dbVars, fileVars, pureVars, assistantId,
                   botEnabled, bthreads, asst, outbox, resp>>

\* run = openai_client.beta.threads.runs.create(...); started = time.time()
\* The backend runs the assistant as it is when the run is created; without
\* an assistant id the backend rejects the call.
CreateRun(t) ==
    /\ task[t].pc = "run"
    /\ \/ /\ assistantId # NoId
          /\ runs' = [runs EXCEPT ![t] =
                [thread |-> task[t].tid,
                 additional |-> AdditionalInstructions(t),
                 assistant |-> asst.instructions,
                 status |-> "queued"]]
          /\ Set(t, [task[t] EXCEPT !.pc = "poll", !.elapsed = 0])
       \/ /\ Raise(t)
          /\ UNCHANGED runs
    /\ UNCHANGED <<envVars, dbVars, fileVars, pureVars, assistantId,
                   botEnabled, bthreads, asst, outbox, resp>>


\* a loop without the deadline check
LeavesLoopOnStatus(v, status, elapsedNow) == status \in Terminal

\* a loop that breaks when the deadline is reached, not only when it is passed
LeavesLoopAtDeadline(v, status, elapsedNow) ==
    \/ status \in Terminal
    \/ elapsedNow >= Deadline(v)

\* the two break conditions of the polling loop, in the order of the code
LeavesLoop(v, status, elapsedNow) ==
    \/ status \in Terminal
    \/ elapsedNow > Deadline(v)

\* One iteration of the polling loop: run = runs.retrieve(thread_id, run_id),
\* the two checks, then time.sleep(1.2) when neither breaks.  The retrieve
\* call takes some time l, which time.time() - started sees.
PollRun(t) ==
    /\ task[t].pc = "poll"
    /\ \/ \E l \in lats :
            LET now == task[t].elapsed + l IN
            Set(t, [task[t] EXCEPT
                !.last = runs[t].status, !.fresh = {},
                !.elapsed = IF LeavesLoop(variant, runs[t].status, now)
                            THEN now ELSE now + PollInterval,
                !.pc = IF LeavesLoop(variant, runs[t].status, now)
                       THEN "list" ELSE "poll"])
       \/ Raise(t)
    /\ UNCHANGED <<envVars, dbVars, fileVars, pureVars, assistantId,
                   botEnabled, bthreads, runs, asst, outbox, resp>>

\* a listing that gives up when the loop was left at the deadline
ListMessagesAfterTerminal(t) ==
    /\ task[t].pc = "list"
    /\ \/ IF task[t].last \in Terminal
          THEN Set(t, [task[t] EXCEPT !.pc = "send",
                         !.elapsed = 0, !.last = "none",
                         !.reply = FinalReply(variant, REPLY_PREFIX,
                                              bthreads[task[t].tid].msgs)])
          ELSE Set(t, Ended(task[t], "timeout"))
       \/ Raise(t)
    /\ UNCHANGED <<envVars, dbVars, fileVars, pureVars, assistantId,
                   botEnabled, bthreads, runs, asst, outbox, resp>>

\* msgs = messages.list(thread_id, order="desc", limit=10), the extraction and
\* the rest of run_assistant_and_get_reply, which calls nothing
ListMessages(t) ==
    /\ task[t].pc = "list"
    /\ \/ Set(t, [task[t] EXCEPT !.pc = "send",
                    !.elapsed = 0, !.last = "none",
                    !.reply = FinalReply(variant, REPLY_PREFIX,
                                         bthreads[task[t].tid].msgs)])
       \/ Raise(t)
    /\ UNCHANGED <<envVars, dbVars, fileVars, pureVars, assistantId,
                   botEnabled, bthreads, runs, asst, outbox, resp>>

\* avito_send_text(user_id, chat_id, reply); a failed send raises
SendReply(t) ==
    /\ task[t].pc = "send"
    /\ \/ /\ outbox' = Append(outbox, [user |-> task[t].user,
                                       chat |-> task[t].chat,
                                       text |-> task[t].reply])
          /\ Set(t, Ended(task[t], "sent"))
       \/ /\ Raise(t)
          /\ UNCHANGED outbox
    /\ UNCHANGED <<envVars, dbVars, fileVars, pureVars, assistantId,
                   botEnabled, bthreads, runs, asst, resp>>

\* -------------------------------------------------------------- backend
\* The backend moves a run through its life: queued -> in_progress ->
\* completed | failed | cancelled | expired.  A run that completes has
\* written an assistant message into its thread.
RunAdvance(t) ==
    /\ \/ /\ runs[t].status = "queued"
          /\ \E s \in {"in_progress"} \cup (outs \ {"completed"}) :
                runs' = [runs EXCEPT ![t].status = s]
          /\ UNCHANGED bthreads
       \/ /\ runs[t].status = "in_progress"
          /\ \E s \in outs \ {"completed"} :
                runs' = [runs EXCEPT ![t].status = s]
          /\ UNCHANGED bthreads
       \/ /\ runs[t].status = "in_progress"
          /\ "completed" \in outs
          /\ runs' = [runs EXCEPT ![t].status = "completed"]
          /\ \E out \in AssistantOutputs :
                bthreads' = [bthreads EXCEPT ![runs[t].thread].msgs =
                    Append(@, [role |-> "assistant", run |-> t, parts |-> out])]
    /\ UNCHANGED <<envVars, dbVars, fileVars, pureVars, assistantId,
                   botEnabled, asst, task, outbox, resp>>

Handler(t) ==
    \/ ensure_assistant_id(t)
    \/ SelectThread(t)
    \/ CreateThread(t)
    \/ InsertThread(t)
    \/ AppendMessage(t)
    \/ ReadInstructions(t)
    \/ CreateRun(t)
    \/ PollRun(t)
    \/ ListMessages(t)
    \/ SendReply(t)


\* ------------------------------------------------------------ admin API
\* A settings body: body (FALSE: the request has no JSON object), and the
\* fields instructions and bot_enabled, absent or given.
Payload(i, b) == [body |-> TRUE, instructions |-> i, bot_enabled |-> b]

NoBody == [body |-> FALSE, instructions |-> Missing, bot_enabled |-> "missing"]

\* the settings bodies sent while handlers run
Payloads ==
    { Payload(<<"a">>, "missing"), Payload(Missing, "false"), NoBody }

\* bot ensure_assistant_id as the admin API calls it: the outcomes are the id,
\* or no id when creating the assistant failed
EnsureAssistantOutcomes ==
    IF assistantId # NoId
    THEN { [ok |-> TRUE, id |-> assistantId, asst |-> asst] }
    ELSE { [ok |-> TRUE, id |-> "asst_new", asst |-> CreatedAssistant],
           [ok |-> FALSE, id |-> NoId, asst |-> asst] }

\* admin: put_settings
put_settings_admin(payload) ==
    /\ variant = "admin"
    /\ settings' = db_set(settings, "instructions", PutValue(payload))
    /\ task' = Track(task, PutValue(payload))
    /\ resp' = Resp("put_settings", 200)
    /\ UNCHANGED <<variant, envVs, lats, outs, threads, kv, fileVars, pureVars,
                   assistantId, botEnabled, bthreads, runs, asst, outbox>>

\* bot: admin_put_settings: BOT_ENABLED first, then the assistant's
\* instructions (with tools and tool_resources when VECTOR_STORE_ID is set)
put_settings_bot(payload) ==
    /\ variant = "bot"
    /\ botEnabled' = IF payload.body /\ payload.bot_enabled # "missing"
                     THEN ParseEnabled(payload.bot_enabled) ELSE botEnabled
    /\ IF payload.body /\ payload.instructions # Missing
       THEN LET instructions == PutValue(payload) IN
            \E a \in EnsureAssistantOutcomes :
               /\ assistantId' = a.id
               /\ \/ /\ a.ok
                     /\ asst' = [instructions |-> instructions,
                                 vs |-> IF envVs # NoId THEN {envVs} ELSE a.asst.vs]
                     /\ task' = Track(IF assistantId = NoId
                                      THEN Track(task, a.asst.instructions)
                                      ELSE task, instructions)
                     /\ resp' = [Resp("put_settings", 200)
                                    EXCEPT !.instructions = instructions]
                  \/ /\ asst' = a.asst
                     /\ task' = IF a.ok /\ assistantId = NoId
                                THEN Track(task, a.asst.instructions) ELSE task
                     /\ resp' = Resp("put_settings", 500)
       ELSE /\ resp' = Resp("put_settings", 200)
            /\ UNCHANGED <<assistantId, asst, task>>
    /\ UNCHANGED <<variant, envVs, lats, outs, dbVars, fileVars, pureVars, bthreads,
                   runs, outbox>>

put_settings(payload) == put_settings_admin(payload) \/ put_settings_bot(payload)

\* ids the backend gives the vector stores it creates
VsNames == <<"vs_1", "vs_2", "vs_3">>

\* admin: ensure_vector_store_attached.  Outcomes: ok (FALSE: a backend call
\* raised), vs (the id returned) and the state left behind.  Reading the ids
\* attached to the assistant goes through tool_resources.get(...) inside a
\* try/except: it yields the attached ids, or [] when the access raises.
EnsureVsOutcomes ==
    IF assistantId = NoId
    THEN { [ok |-> TRUE, vs |-> NoId, kv |-> kv, nVs |-> nVs, asst |-> asst] }
    ELSE LET have == db_get(kv, "vector_store_id")
             id == IF have # NoId THEN have ELSE VsNames[nVs + 1]
             kv1 == IF have # NoId THEN kv ELSE db_set(kv, "vector_store_id", id)
             nVs1 == IF have # NoId THEN nVs ELSE nVs + 1
             raised(k, n) == [ok |-> FALSE, vs |-> NoId, kv |-> k, nVs |-> n,
                              asst |-> asst]
         IN  (IF have = NoId THEN {raised(kv, nVs)} ELSE {})
             \cup {raised(kv1, nVs1)}
             \cup { [ok |-> TRUE, vs |-> id, kv |-> kv1, nVs |-> nVs1,
                     asst |-> IF id \in current THEN asst
                              ELSE [asst EXCEPT !.vs = current \cup {id}]] :
                    current \in {asst.vs, {}} }


\* a GET /settings that saves what it shows
get_settings_saving ==
    /\ variant = "admin"
    /\ \E v \in EnsureVsOutcomes :
          /\ kv' = v.kv /\ nVs' = v.nVs /\ asst' = v.asst
          /\ resp' = IF v.ok
                     THEN [Resp("get_settings", 200) EXCEPT
                              !.instructions = get_effective_instructions(settings)]
                     ELSE Resp("get_settings", 500)
    /\ settings' = db_set(settings, "instructions",
                          get_effective_instructions(settings))
    /\ UNCHANGED <<variant, envVs, lats, outs, threads, files, pureVars,
                   assistantId, botEnabled, handlerVars>>

\* admin: get_settings
get_settings_admin ==
    /\ variant = "admin"
    /\ \E v \in EnsureVsOutcomes :
          /\ kv' = v.kv /\ nVs' = v.nVs /\ asst' = v.asst
          /\ resp' = IF v.ok
                     THEN [Resp("get_settings", 200) EXCEPT
                              !.instructions = get_effective_instructions(settings)]
                     ELSE Resp("get_settings", 500)
    /\ UNCHANGED <<variant, envVs, lats, outs, threads, settings, files, pureVars,
                   assistantId, botEnabled, handlerVars>>

\* bot: admin_get_settings: "instructions": (a.instructions or "")
get_settings_bot ==
    /\ variant = "bot"
    /\ \E a \in EnsureAssistantOutcomes :
          /\ assistantId' = a.id /\ asst' = a.asst
          /\ task' = IF a.ok /\ assistantId = NoId
                     THEN Track(task, a.asst.instructions) ELSE task
          /\ \/ /\ a.ok
                /\ resp' = [Resp("get_settings", 200) EXCEPT !.instructions =
                              IF Truthy(a.asst.instructions)
                              THEN a.asst.instructions ELSE <<>>]
             \/ resp' = Resp("get_settings", 500)
    /\ UNCHANGED <<variant, envVs, lats, outs, dbVars, fileVars, pureVars,
                   botEnabled, bthreads, runs, outbox>>

get_settings == get_settings_admin \/ get_settings_bot

\* ------------------------------------------------------------ documents
\* files[i] is the document the backend gave id i: stored (the Files API
\* holds it) and vs (its status in the vector store: "none" when it is not
\* attached, else "in_progress", "completed" or "failed").
FileIds == 1..MaxFiles

Attached(fs) == { i \in 1..Len(fs) : fs[i].vs # "none" }

\* vector_stores.files.delete(vector_store_id, file_id) when it succeeds
VsUnlink(fs, i) == [fs EXCEPT ![i].vs = "none"]
CanUnlink(fs, i) == i \in Attached(fs)

\* a files.delete that leaves the link to the vector store behind
FileDeleteKeepingLink(fs, i) == [fs EXCEPT ![i].stored = FALSE]

\* files.delete(file_id) when it succeeds: the backend drops the document
\* from the vector store as well
FileDelete(fs, i) == [fs EXCEPT ![i] = [stored |-> FALSE, vs |-> "none"]]
CanDelete(fs, i) == i \in 1..Len(fs) /\ fs[i].stored

\* the name a document was uploaded under
FileName(i) == <<"name", i>>

\* the filename of a row of the vector store listing: the one files.retrieve
\* gave; when it raised, bot keeps filename = fid and admin puts None
RowName(i, retrieved) ==
    IF retrieved THEN FileName(i)
    ELSE IF variant = "bot" THEN <<"id", i>> ELSE None

\* the last_error of a row: bot passes the one of the vector store file (the
\* backend sets it on a failed one), the rows of admin have no such key
RowError(status) ==
    IF variant = "bot"
    THEN (IF status = "failed" THEN <<"<last_error>">> ELSE None)
    ELSE Missing

RECURSIVE RowsOfRetrieved(_, _, _)
\* a listing that leaves out the documents whose files.retrieve raised
RowsOfRetrieved(ids, fs, failing) ==
    IF ids = <<>> THEN <<>>
    ELSE (IF Head(ids) \in failing THEN <<>>
          ELSE << [id |-> Head(ids), status |-> fs[Head(ids)].vs,
                   meta |-> TRUE,
                   filename |-> RowName(Head(ids), TRUE),
                   error |-> RowError(fs[Head(ids)].vs)] >>)
         \o RowsOfRetrieved(Tail(ids), fs, failing)

RECURSIVE RowsOf(_, _, _)
\* one row per listed document, in the order given; meta tells whether
\* files.retrieve gave the name, the size and the creation time
RowsOf(ids, fs, failing) ==
    IF ids = <<>> THEN <<>>
    ELSE << [id |-> Head(ids), status |-> fs[Head(ids)].vs,
             meta |-> Head(ids) \notin failing,
             filename |-> RowName(Head(ids), Head(ids) \notin failing),
             error |-> RowError(fs[Head(ids)].vs)] >>
         \o RowsOf(Tail(ids), fs, failing)

RECURSIVE FilesApiRows(_)
\* bot without VECTOR_STORE_ID: the rows of files.list(), with the status of
\* the Files API
FilesApiRows(ids) ==
    IF ids = <<>> THEN <<>>
    ELSE << [id |-> Head(ids), status |-> "processed", meta |-> TRUE,
             filename |-> FileName(Head(ids)), error |-> Missing] >>
         \o FilesApiRows(Tail(ids))

RECURSIVE Ascending(_)
Ascending(S) ==
    IF S = {} THEN <<>>
    ELSE LET m == CHOOSE x \in S : \A y \in S : x <= y
         IN <<m>> \o Ascending(S \ {m})

\* bot: rows.sort(key=created_at or 0, reverse=True): rows with a creation
\* time newest first, then the rows without one in their listed order
SortRows(rows) ==
    LET with == SelectSeq(rows, LAMBDA r : r.meta)
        without == SelectSeq(rows, LAMBDA r : ~r.meta)
    IN Reverse(with) \o without

\* admin: list_files
list_files_admin ==
    /\ variant = "admin"
    /\ \E v \in EnsureVsOutcomes :
          /\ kv' = v.kv /\ nVs' = v.nVs /\ asst' = v.asst
          /\ IF ~v.ok THEN resp' = Resp("list_files", 500)
             ELSE IF v.vs = NoId THEN resp' = Resp("list_files", 200)
             ELSE \/ resp' = Resp("list_files", 500)
                  \/ \E failing \in SUBSET Attached(files) :
                        resp' = [Resp("list_files", 200) EXCEPT !.data =
                            RowsOf(Ascending(Attached(files)), files, failing)]
    /\ UNCHANGED <<variant, envVs, lats, outs, threads, settings, files, pureVars,
                   assistantId, botEnabled, handlerVars>>

\* bot: list_files: the vector store's files when VECTOR_STORE_ID is set,
\* else the Files API listing
list_files_bot ==
    /\ variant = "bot"
    /\ \/ resp' = Resp("list_files", 500)
       \/ /\ envVs # NoId
          /\ \E failing \in SUBSET Attached(files) :
                resp' = [Resp("list_files", 200) EXCEPT !.data =
                    SortRows(RowsOf(Ascending(Attached(files)), files, failing))]
       \/ /\ envVs = NoId
          /\ resp' = [Resp("list_files", 200) EXCEPT !.data =
                SortRows(FilesApiRows(
                    Ascending({i \in 1..Len(files) : files[i].stored})))]
    /\ UNCHANGED <<variant, envVs, lats, outs, dbVars, fileVars, pureVars,
                   assistantId, botEnabled, asst, handlerVars>>

list_files == list_files_admin \/ list_files_bot

\* the entry of the upload response: bot gives the status and last_error of
\* the vector store file (no status from the Files API), admin neither
UploadedRow(i, status) ==
    << [id |-> i, status |-> status, meta |-> TRUE, filename |-> FileName(i),
        error |-> IF status = "none" THEN Missing ELSE RowError(status)] >>

\* admin: upload_files with one file: files.create, then
\* vector_stores.files.create; the response carries no status
upload_files_admin ==
    /\ variant = "admin"
    /\ \E v \in EnsureVsOutcomes :
          /\ kv' = v.kv /\ nVs' = v.nVs /\ asst' = v.asst
          /\ IF ~v.ok THEN resp' = Resp("upload_files", 500) /\ UNCHANGED files
             ELSE IF v.vs = NoId
             THEN resp' = Resp("upload_files", 400) /\ UNCHANGED files
             ELSE \/ resp' = Resp("upload_files", 500) /\ UNCHANGED files
                  \/ /\ Len(files) < MaxFiles
                     /\ files' = Append(files, [stored |-> TRUE, vs |-> "none"])
                     /\ resp' = Resp("upload_files", 500)
                  \/ /\ Len(files) < MaxFiles
                     /\ files' = Append(files, [stored |-> TRUE,
                                                vs |-> "in_progress"])
                     /\ resp' = [Resp("upload_files", 200) EXCEPT !.data =
                                    UploadedRow(Len(files) + 1, "none")]
    /\ UNCHANGED <<variant, envVs, lats, outs, threads, settings, pureVars,
                   assistantId, botEnabled, handlerVars>>

\* bot: upload_files with one file: upload_and_poll waits for the indexing to
\* end when VECTOR_STORE_ID is set, else files.create; empty content is skipped
upload_files_bot(empty) ==
    /\ variant = "bot"
    /\ IF empty THEN resp' = Resp("upload_files", 200) /\ UNCHANGED files
       ELSE \/ resp' = Resp("upload_files", 500) /\ UNCHANGED files
            \/ /\ Len(files) < MaxFiles
               /\ envVs # NoId
               /\ \E s \in {"completed", "failed"} :
                     /\ files' = Append(files, [stored |-> TRUE, vs |-> s])
                     /\ resp' = [Resp("upload_files", 200) EXCEPT !.data =
                                    UploadedRow(Len(files) + 1, s)]
            \/ /\ Len(files) < MaxFiles
               /\ envVs = NoId
               /\ files' = Append(files, [stored |-> TRUE, vs |-> "none"])
               /\ resp' = [Resp("upload_files", 200) EXCEPT !.data =
                              UploadedRow(Len(files) + 1, "none")]
    /\ UNCHANGED <<variant, envVs, lats, outs, dbVars, nVs, pureVars,
                   assistantId, botEnabled, asst, handlerVars>>

upload_files == upload_files_admin \/ \E empty \in BOOLEAN : upload_files_bot(empty)

\* admin: delete_file: the vector store link first; files.delete only when
\* that did not succeed
delete_file_admin(i) ==
    /\ variant = "admin"
    /\ \/ /\ db_get(kv, "vector_store_id") # NoId
          /\ CanUnlink(files, i)
          /\ files' = VsUnlink(files, i)
          /\ resp' = Resp("delete_file", 200)
       \/ /\ CanDelete(files, i)
          /\ files' = FileDelete(files, i)
          /\ resp' = Resp("delete_file", 200)
       \/ /\ resp' = Resp("delete_file", 400)
          /\ UNCHANGED files
    /\ UNCHANGED <<variant, envVs, lats, outs, dbVars, nVs, pureVars,
                   assistantId, botEnabled, asst, handlerVars>>

\* bot: delete_file: the vector store link is tried and its failure ignored,
\* then files.delete decides the response
delete_file_bot(i) ==
    /\ variant = "bot"
    /\ \E unlinked \in {files} \cup
            (IF envVs # NoId /\ CanUnlink(files, i)
             THEN {VsUnlink(files, i)} ELSE {}) :
          \/ /\ CanDelete(unlinked, i)
             /\ files' = FileDelete(unlinked, i)
             /\ resp' = Resp("delete_file", 200)
          \/ /\ files' = unlinked
             /\ resp' = Resp("delete_file", 500)
    /\ UNCHANGED <<variant, envVs, lats, outs, dbVars, nVs, pureVars,
                   assistantId, botEnabled, asst, handlerVars>>

delete_file(i) == delete_file_admin(i) \/ delete_file_bot(i)

\* backend: the indexing of an attached document ends
IndexAdvance(i) ==
    /\ i \in 1..Len(files)
    /\ files[i].vs = "in_progress"
    /\ \E s \in {"completed", "failed"} : files' = [files EXCEPT ![i].vs = s]
    /\ UNCHANGED <<envVars, dbVars, nVs, pureVars, assistantId, botEnabled,
                   asst, handlerVars, resp>>

\* ----------------------------------------------------- specifications
\* the webhook handlers and the backend
Next ==
    \/ \E t \in Tasks, e \in Events : avito_webhook(t, e)
    \/ \E t \in Tasks : Handler(t)
    \/ \E t \in Tasks : RunAdvance(t)

Spec == Init /\ [][Next]_vars

\* one more request to the admin API
Request == calls < MaxAdminCalls /\ calls' = calls + 1

\* every operation of the server
NextAll ==
    \/ Next
    \/ \E p \in Payloads : Request /\ put_settings(p)
    \/ Request /\ get_settings
    \/ Request /\ list_files
    \/ Request /\ upload_files
    \/ \E i \in FileIds : Request /\ delete_file(i)
    \/ \E i \in FileIds : IndexAdvance(i)

\* Every retrieve outlasts the deadline here, and no run fails.
InitAll ==
    /\ InitCommon
    /\ envVs = IF variant = "bot" THEN "vs_env" ELSE NoId
    /\ lats = {2 * SlowCall}
    /\ outs = {"completed"}

SpecAll == InitAll /\ [][NextAll]_vars

\* ------------------------------------------- the handlers and the switch
\* requests that set bot_enabled
MaxSwitches == 2

\* the settings bodies that switch the bot off and on
SwitchPayloads == { Payload(Missing, "false"), Payload(Missing, "true") }

\* BOT_ENABLED is read from the environment at start-up (bot only: the
\* admin server has no such flag)
InitEnabled ==
    /\ \E enabled \in BOOLEAN :
          /\ InitServer(enabled)
          /\ variant = "admin" => enabled
    /\ envVs = IF variant = "bot" THEN "vs_env" ELSE NoId
    /\ lats = {SlowCall}
    /\ outs = {"completed"}

NextEnabled ==
    \/ Next
    \/ \E p \in SwitchPayloads :
          calls < MaxSwitches /\ calls' = calls + 1 /\ put_settings(p)

SpecEnabled == InitEnabled /\ [][NextEnabled]_vars

\* ------------------------------------------------- the polling loop alone
\* One delivery, handled by task 1; a retrieve takes any time up to
\* MaxLatency, and the backend may end the run in every terminal state.
InitPoll ==
    /\ InitCommon
    /\ assistantId # NoId
    /\ envVs = NoId
    /\ lats = 0..MaxLatency
    /\ outs = Terminal

NextPoll ==
    \/ \E e \in Events : avito_webhook(1, e)
    \/ Handler(1)
    \/ RunAdvance(1)

SpecPoll == InitPoll /\ [][NextPoll]_vars

\* --------------------------------------------------- the settings API alone
\* the instruction texts sent: absent, null, and every text up to MaxInstrLen
SettingsPayloads ==
    { Payload(i, b) : i \in Str(MaxInstrLen) \cup {Missing, None},
                      b \in {"missing", "false"} }
    \cup {NoBody}

InitSettings ==
    /\ InitCommon
    /\ assistantId # NoId
    /\ envVs = NoId
    /\ lats = {SlowCall}
    /\ outs = Terminal

NextSettings ==
    \/ \E p \in SettingsPayloads : put_settings(p) /\ UNCHANGED calls
    \/ get_settings /\ UNCHANGED calls

SpecSettings == InitSettings /\ [][NextSettings]_vars

\* ------------------------------------------------ the message text alone
\* the listing contexts a caller can pass
Contexts ==
    { NoCtx,
      [NoCtx EXCEPT !.kind = "empty"],
      [NoCtx EXCEPT !.kind = "dict"],
      [NoCtx EXCEPT !.kind = "dict", !.type = "item"],
      [NoCtx EXCEPT !.kind = "dict", !.type = "user", !.hasValue = TRUE,
                    !.title = <<"a">>],
      [NoCtx EXCEPT !.kind = "dict", !.type = "item", !.hasValue = TRUE,
                    !.title = <<"a">>, !.price_string = <<"1">>],
      ItemCtx(<<"7">>) }

MessageInputs ==
    { [buyer_text |-> x, chat_id |-> c, ctx |-> k] :
        x \in Str(MaxTextLen), c \in ChatIds, k \in Contexts }

\* ------------------------------------------------ the reply, in isolation
\* one citation marker, as the backend writes them
MARK == <<CITE_OPEN, "1", ":", "a", CITE_CLOSE>>

\* what the texts of the assistant are made of: a marker, the two halves of
\* another marker, a letter, a blank
Pieces == { MARK, <<CITE_OPEN, "1">>, <<":", "b", CITE_CLOSE>>, <<"a">>, <<" ">> }

RECURSIVE Concat(_)
Concat(ps) == IF ps = <<>> THEN <<>> ELSE Head(ps) \o Concat(Tail(ps))

ShortTexts == { Concat(ps) : ps \in UNION {[1..k -> Pieces] : k \in 0..MaxPieces} }

\* texts around the limit of the reply
LongTexts ==
    { [i \in 1..n |-> "a"] : n \in (ReplyLimit - MaxOver)..(ReplyLimit + MaxOver) }
    \cup { MARK \o [i \in 1..ReplyLimit |-> "a"] }

TextPart(x) == [type |-> "text", value |-> x]
ImagePart == [type |-> "image_file", value |-> <<>>]
Msg(role, parts) == [role |-> role, run |-> 0, parts |-> parts]

\* the threads listed: no message, no assistant message, an assistant message
\* without text parts, one with a text, one with two text parts, and a text
\* under a newer assistant message that has no text part, a text under a
\* newer text, and an assistant text at the edge of the listed window
ReplyThreads ==
    { <<>>,
      << Msg("user", <<TextPart(<<"a">>)>>) >>,
      << Msg("user", <<TextPart(<<"a">>)>>), Msg("assistant", <<ImagePart>>) >> }
    \cup { << Msg("user", <<TextPart(<<"a">>)>>), Msg("assistant", <<TextPart(x)>>) >> :
              x \in ShortTexts \cup LongTexts }
    \cup { << Msg("assistant", <<TextPart(x), ImagePart, TextPart(<<"a">>)>>) >> :
              x \in {<<>>, <<" ">>, MARK} }
    \cup { << Msg("assistant", <<TextPart(x)>>), Msg("assistant", <<ImagePart>>) >> :
              x \in {<<"a">>, MARK} }
    \cup { << Msg("assistant", <<TextPart(<<"a">>)>>),
               Msg("assistant", <<TextPart(x)>>) >> : x \in {<<" ">>, <<"a", "a">>} }
    \cup { << Msg("assistant", <<TextPart(<<"a">>)>>) >>
              \o [k \in 1..n |-> Msg("user", <<TextPart(<<"a">>)>>)] :
              n \in {ListLimit - 1, ListLimit} }

\* values of REPLY_PREFIX: unset, a short one, one that holds a marker, one
\* as long as the limit
Prefixes == { <<>>, <<"p">>, MARK \o <<"p">>, [i \in 1..ReplyLimit |-> "p"] }

ReplyInputs == { [msgs |-> m, prefix |-> p] : m \in ReplyThreads, p \in Prefixes }

InitReply ==
    /\ InitCommon
    /\ assistantId # NoId
    /\ envVs = NoId
    /\ lats = {SlowCall}
    /\ outs = Terminal

\* run_assistant_and_get_reply from messages.list on, for one listed thread
ReplyOne ==
    /\ res = None
    /\ \E i \in ReplyInputs :
          /\ arg' = <<i>>
          /\ res' = FinalReply(variant, i.prefix, i.msgs)
    /\ UNCHANGED <<envVars, dbVars, fileVars, handlerVars, assistantId,
                   botEnabled, asst, resp>>

SpecReply == InitReply /\ [][ReplyOne]_vars

\* ------------------------------------------- the documents, in isolation
\* The admin API called request after request, no handler running; the bot
\* runs with or without VECTOR_STORE_ID.
InitFiles ==
    /\ InitCommon
    /\ envVs \in (IF variant = "bot" THEN {NoId, "vs_env"} ELSE {NoId})
    /\ lats = {SlowCall}
    /\ outs = Terminal

NextFiles ==
    \/ get_settings /\ UNCHANGED calls
    \/ list_files /\ UNCHANGED calls
    \/ upload_files /\ UNCHANGED calls
    \/ \E i \in FileIds : delete_file(i) /\ UNCHANGED calls
    \/ \E i \in FileIds : IndexAdvance(i)

SpecFiles == InitFiles /\ [][NextFiles]_vars

InitMessage ==
    /\ InitCommon
    /\ variant = "bot" /\ assistantId # NoId
    /\ envVs = NoId
    /\ lats = {SlowCall}
    /\ outs = Terminal

\* the content argument of messages.create for one input
BuildOne ==
    /\ res = None
    /\ \E i \in MessageInputs :
          /\ arg' = <<i>>
          /\ res' = BuildMessage(i.buyer_text, i.chat_id, i.ctx)
    /\ UNCHANGED <<envVars, dbVars, fileVars, handlerVars, assistantId,
                   botEnabled, asst, resp>>

SpecMessage == InitMessage /\ [][BuildOne]_vars

\* ============================================================ properties
\* the call of get_or_create_thread by task t has returned a thread id
Returned(tk) == tk.pc \in {"append", "instr", "run", "poll", "list", "send"}

\* C1: get_or_create_thread is idempotent after the first creation.  A call
\* that finds no binding and completes has created one backend thread (the
\* newest one) and stored the binding chat_id -> that thread before it
\* returns; a call that starts when the chat is bound returns the bound id
\* at once, without creating a thread or touching the table; and whatever
\* else has happened, the id a call returned is the id bound to its chat.
C1_Step ==
    \A t \in Tasks :
        LET c == task[t].chat IN
        /\ (task[t].pc = "select" /\ task'[t].pc # "select"
                /\ threads[c] # NoThread)
            => /\ task'[t].pc = "append"
               /\ task'[t].tid = threads[c]
               /\ bthreads' = bthreads /\ threads' = threads
        /\ (task[t].pc = "create" /\ task'[t].pc = "insert")
            => /\ Len(bthreads') = Len(bthreads) + 1
               /\ task'[t].tid = Len(bthreads')
               /\ bthreads'[task'[t].tid].chat = c
               /\ threads' = threads
        /\ (task[t].pc = "insert" /\ task'[t].pc = "append")
            => /\ threads[c] = NoThread
               /\ threads'[c] = task[t].tid
               /\ \A d \in ChatIds \ {c} : threads'[d] = threads[d]
               /\ bthreads' = bthreads
        /\ Returned(task'[t])
            => /\ threads'[task'[t].chat] = task'[t].tid
               /\ task'[t].tid \in 1..Len(bthreads')
               /\ bthreads'[task'[t].tid].chat = task'[t].chat

\* C1: every step keeps get_or_create_thread idempotent, as C1_Step says
C1_Idempotent == [][C1_Step]_vars

\* both tasks serve the same chat, one after the other: the second call
\* returned the thread the first one created, and no other thread exists
C1_Witness ==
    /\ task[1].out = "sent"
    /\ Returned(task[2])
    /\ task[2].chat = <<"c", "1">>
    /\ Len(bthreads) = 1
    /\ task[2].tid = 1
    /\ Len(bthreads[1].msgs) >= 2

\* C2: no backend thread is created for a chat that has a binding at the
\* moment of the creation.  (That a chat has at most one binding is the
\* PRIMARY KEY of the table: threads maps a chat to one thread id.)
C2_Step ==
    \A t \in Tasks :
        (task[t].pc = "create" /\ task'[t].pc = "insert")
            => threads[task[t].chat] = NoThread

\* C2: in every step, also of interleaved handlers, threads.create is called
\* only for a chat without a binding
C2_NoSecondThread == [][C2_Step]_vars

\* C3: when threads.create raises, the call ends in the error, no thread
\* exists for it and the binding table is what it was; a call that starts
\* while the chat has no binding goes to create a thread.
C3_Step ==
    \A t \in Tasks :
        /\ (task[t].pc = "create" /\ task'[t].pc = "done")
            => /\ task'[t].out = "error"
               /\ threads' = threads
               /\ bthreads' = bthreads
        /\ (task[t].pc = "select" /\ task'[t].pc # "select"
                /\ threads[task[t].chat] = NoThread)
            => /\ task'[t].pc = "create"
               /\ threads' = threads

\* C3: a failed threads.create leaves no trace in any step, as C3_Step says
C3_FailedCreate == [][C3_Step]_vars

\* admin: the first call failed at threads.create (nothing else can fail
\* before a thread exists), no row was written, and the next call is about to
\* create a thread
C3_Witness ==
    /\ variant = "admin"
    /\ task[1].out = "error"
    /\ bthreads = <<>>
    /\ \A c \in ChatIds : threads[c] = NoThread
    /\ task[2].pc = "create"

\* C4: a binding, once written, is never changed or removed, by any step of
\* any handler, of the backend or of the admin API.
C4_Step == \A c \in ChatIds : threads[c] # NoThread => threads'[c] = threads[c]

\* C4: no step of any operation changes or removes an existing binding
C4_BindingFrame == [][C4_Step]_vars

\* both chats are bound, a handler is still at work and a document has been
\* uploaded through the admin API
C4_Witness ==
    /\ \A c \in ChatIds : threads[c] # NoThread
    /\ \E t \in Tasks : task[t].pc = "send"
    /\ resp.op = "upload_files" /\ resp.code = 200
    /\ Len(files) = 1

\* a text that is empty or holds whitespace only
Blank(x) == \A i \in 1..Len(x) : IsSpace(x[i])

\* what reading the instructions is to give for a stored value
ExpectedEffective(stored) ==
    IF stored # None /\ ~Blank(stored) THEN stored ELSE DEFAULT_INSTRUCTIONS

\* what a PUT body asks to store: its instructions text, if it has one
Sent(p) ==
    IF p.body /\ p.instructions # Missing /\ p.instructions # None
    THEN p.instructions ELSE <<>>

\* C5: admin: get_effective_instructions gives the stored override exactly
\* when one is stored and it is not blank, else DEFAULT_INSTRUCTIONS.  After
\* PUT /settings with the text x a read gives x when x is not blank and the
\* default when it is (or when the body has no text); GET /settings answers
\* with that same reading of the stored value.
C5_Step ==
    /\ get_effective_instructions(settings')
            = ExpectedEffective(db_get(settings', "instructions"))
    /\ \A p \in SettingsPayloads :
            put_settings_admin(p)
            => get_effective_instructions(settings')
                    = IF Blank(Sent(p)) THEN DEFAULT_INSTRUCTIONS ELSE Sent(p)
    /\ (get_settings_admin /\ resp'.code = 200)
            => resp'.instructions
                    = ExpectedEffective(db_get(settings, "instructions"))

\* C5: every PUT and every read of the instructions behaves as C5_Step says
C5_Effective == [][C5_Step]_vars

\* a whitespace-only override is stored and GET /settings answered the default
C5_Witness ==
    /\ variant = "admin"
    /\ db_get(settings, "instructions") = <<" ", "\n">>
    /\ resp.op = "get_settings" /\ resp.code = 200
    /\ resp.instructions = DEFAULT_INSTRUCTIONS

\* the run of task t is being created in this step
Submits(t) == task[t].pc = "run" /\ task'[t].pc = "poll"

\* C6: the instructions of a run are read from the store for that run, just
\* before it is submitted: admin passes the effective instructions it read
\* after appending the message, bot lets the backend take the assistant's
\* instructions as they are when the run is created.  No value older than
\* the arrival of the message is ever used, so a PUT that has completed
\* before a message arrives governs the run of that message.
C6_Step ==
    \A t \in Tasks :
        /\ (task[t].pc = "instr" /\ task'[t].pc = "run")
            => task'[t].instr
                    = ExpectedEffective(db_get(settings, "instructions"))
        /\ Submits(t)
            => IF variant = "admin"
               THEN /\ runs'[t].additional = task[t].instr
                    /\ runs'[t].additional
                            \in {ExpectedEffective(x) : x \in task[t].fresh}
               ELSE /\ runs'[t].additional = build_system_instructions
                    /\ runs'[t].assistant = asst.instructions
                    /\ runs'[t].assistant \in task[t].fresh

\* C6: every run is submitted with instructions read for it, as C6_Step says
C6_ReadForEachRun == [][C6_Step]_vars

\* admin: the override was PUT before the message arrived, and the run just
\* submitted carries it
C6_Witness ==
    /\ variant = "admin"
    /\ db_get(settings, "instructions") = <<"a">>
    /\ \E t \in Tasks :
          /\ task[t].pc = "poll" /\ task[t].last = "none"
          /\ task[t].fresh = {<<"a">>}
          /\ runs[t].additional = <<"a">>

\* C6 as the specification words it: the instructions of a run are the
\* effective instructions stored at the moment the run is submitted.
C6_AtSubmission_Step ==
    \A t \in Tasks :
        Submits(t)
        => IF variant = "admin"
           THEN runs'[t].additional
                    = ExpectedEffective(db_get(settings, "instructions"))
           ELSE runs'[t].assistant = asst.instructions

\* C6, in the words of the specification: at every submission the run gets
\* the effective instructions stored at that moment
C6_AtSubmission == [][C6_AtSubmission_Step]_vars

\* C7: the stored override changes only through PUT /settings.  admin: the
\* settings table changes in no other step, and the assistant's own
\* instructions never change.  bot, which keeps the override in the
\* assistant: they change in no other step, apart from the creation of the
\* assistant when no ASSISTANT_ID is configured.
C7_Step ==
    /\ settings' # settings => \E p \in Payloads : put_settings_admin(p)
    /\ asst'.instructions # asst.instructions
        => /\ variant = "bot"
           /\ \/ \E p \in Payloads : put_settings_bot(p)
              \/ /\ assistantId = NoId /\ assistantId' # NoId
                 /\ asst'.instructions = CREATED_ASSISTANT_INSTRUCTIONS

\* C7: no step but a PUT /settings changes the stored override
C7_OnlyPut == [][C7_Step]_vars

\* admin: GET /settings has created and attached a vector store while a
\* handler polls its run, and nothing is stored as override
C7_Witness ==
    /\ variant = "admin"
    /\ resp.op = "get_settings" /\ resp.code = 200
    /\ db_get(kv, "vector_store_id") # NoId
    /\ db_get(kv, "vector_store_id") \in asst.vs
    /\ db_get(settings, "instructions") = None
    /\ \E t \in Tasks : task[t].pc = "list"

\* C8: the content of the user message is the buyer text as given, then the
\* annotation that names the chat id, then the listing block when, and only
\* when, a context of type item is supplied; nothing else follows.
C8_Message ==
    res # None =>
        LET i == arg[1]
            n == Len(i.buyer_text)
            note == <<"\n", "\n", "[Istochnik: Avito-chat ">> \o i.chat_id
                        \o <<"]">>
            rest == SubSeq(res, n + Len(note) + 1, Len(res))
        IN /\ IsPrefix(i.buyer_text, res)
           /\ SubSeq(res, n + 1, n + Len(note)) = note
           /\ IF i.ctx.kind = "dict" /\ i.ctx.type = "item"
              THEN IsPrefix(CTX_OPEN, rest) /\ Contains(CTX_URL, rest)
              ELSE rest = <<>>

\* a text with whitespace at both ends and a context of type item without a
\* value: the block is there, with the defaults
C8_Witness ==
    /\ res # None
    /\ arg[1].buyer_text = <<" ", "\n">>
    /\ arg[1].ctx.kind = "dict" /\ arg[1].ctx.type = "item"
    /\ ~arg[1].ctx.hasValue
    /\ Contains(CTX_URL \o <<"-">>, res)

\* the handler thread keeps running: each runs.retrieve of the loop returns
\* or raises
SpecPollFair == SpecPoll /\ WF_vars(PollRun(1))

\* C9: the polling loop ends.  Every iteration that does not leave the loop
\* adds at least one interval to the elapsed time and starts the next one no
\* later than one interval after the deadline; the loop is left for the
\* deadline when the elapsed time, read after the retrieve call has
\* returned, exceeds it, which is at most one interval plus the duration of
\* that last call after the deadline.
C9_Step ==
    \A t \in Tasks :
        /\ (task[t].pc = "poll" /\ task'[t].pc = "poll"
                /\ task'[t] # task[t])
            => /\ task'[t].elapsed >= task[t].elapsed + PollInterval
               /\ task'[t].elapsed <= Deadline(variant) + PollInterval
        /\ (task[t].pc = "poll" /\ task'[t].pc = "list"
                /\ task'[t].last \notin Terminal)
            => /\ task'[t].elapsed > Deadline(variant)
               /\ task'[t].elapsed
                    <= Deadline(variant) + PollInterval
                        + (task'[t].elapsed - task[t].elapsed)

\* C9: the polling loop ends: its steps keep the bounds of C9_Step, and a
\* task that polls leaves the loop
C9_Terminates ==
    /\ [][C9_Step]_vars
    /\ \A t \in Tasks : task[t].pc = "poll" ~> task[t].pc # "poll"

\* the run is still queued and the wait has ended later than one interval
\* after the deadline
C9_Witness ==
    \E t \in Tasks :
        /\ task[t].pc = "list"
        /\ task[t].last = "queued" /\ runs[t].status = "queued"
        /\ task[t].elapsed > Deadline(variant) + PollInterval

\* C9 as the specification words it: the wait for a run that is not
\* terminal ends at most one polling interval after the deadline.
C9_WithinOneInterval ==
    \A t \in Tasks :
        (task[t].pc = "list" /\ task[t].last \notin Terminal)
        => task[t].elapsed <= Deadline(variant) + PollInterval

\* C10: an iteration retrieves the status of the run; the loop is left
\* exactly when that status is completed, failed, cancelled or expired, or
\* the time elapsed when the call has returned exceeds the deadline;
\* otherwise the task sleeps one interval and polls again (the elapsed time
\* then counts the call and the interval).  Once the loop is left the run is
\* not polled again.
C10_Step ==
    \A t \in Tasks :
        /\ (task[t].pc = "poll" /\ task'[t].pc \in {"poll", "list"}
                /\ task'[t] # task[t])
            => LET seen == task'[t].last
                   now == IF task'[t].pc = "list" THEN task'[t].elapsed
                          ELSE task'[t].elapsed - PollInterval
                   leave == \/ seen \in {"completed", "failed", "cancelled",
                                         "expired"}
                            \/ now > (IF variant = "bot" THEN DeadlineBot
                                      ELSE DeadlineAdmin)
               IN /\ seen = runs[t].status
                  /\ now - task[t].elapsed \in lats
                  /\ (task'[t].pc = "list") <=> leave
        /\ task[t].pc \in {"list", "send", "done"} => task'[t].pc # "poll"

\* C10: every iteration of the polling loop leaves or continues as C10_Step
\* says
C10_LeavesExactly == [][C10_Step]_vars

\* bot: the status read exactly at the deadline was in_progress, the task
\* slept and is about to poll again, and the run has completed meanwhile
C10_Witness ==
    \E t \in Tasks :
        /\ variant = "bot"
        /\ task[t].pc = "poll"
        /\ task[t].last = "in_progress"
        /\ task[t].elapsed = DeadlineBot + PollInterval
        /\ runs[t].status = "completed"

\* ---------------------------------------------------------------- C11
\* the loop was left at the deadline: the last status read is not terminal
TimedOut(tk) == tk.pc = "list" /\ tk.last \notin Terminal

C11_Step ==
    \A t \in Tasks :
        /\ (TimedOut(task[t]) /\ task'[t] # task[t]) =>
              \/ task'[t].out = "error"
              \/ /\ task'[t].pc = "send"
                 /\ task'[t].tid = task[t].tid
                 /\ task'[t].chat = task[t].chat
                 /\ task'[t].reply =
                        FinalReply(variant, REPLY_PREFIX,
                                   bthreads[task[t].tid].msgs)
        /\ (task[t].pc = "send" /\ task'[t] # task[t]) =>
              \/ task'[t].out = "error" /\ outbox' = outbox
              \/ /\ task'[t].out = "sent"
                 /\ outbox' = Append(outbox, [user |-> task[t].user,
                                              chat |-> task[t].chat,
                                              text |-> task[t].reply])

\* C11: a run that is still queued or in progress when the polling deadline
\* passes is not an error: the handler lists the messages of the same thread,
\* takes the reply from them as it does after a terminal status (the extracted
\* text or the fallback), and the reply it took is what it sends; only a
\* failing call ends the handler without a reply.
C11_TimeoutGoesOn == [][C11_Step]_vars

\* a reply was sent while the run of its handler never left the queue
C11_Witness ==
    \E t \in Tasks :
        /\ task[t].out = "sent"
        /\ runs[t].status = "queued"
        /\ \E i \in 1..Len(outbox) : outbox[i].text = Fallback(variant)

\* ---------------------------------------------------------------- C12
\* the text extracted from the listed thread, before the fallback
Extracted(i) == ScanReply(ListDesc(i.msgs))

\* C12: the reply of run_assistant_and_get_reply is never empty, whatever the
\* listed thread holds: no assistant message, only parts that are not text,
\* a text of whitespace, or a text made of citation markers only.
C12_NeverEmpty == res # None => res # <<>>

\* the bot returned an empty reply for a text that was nothing but markers
C12_EmptyReply ==
    /\ variant = "bot"
    /\ res = <<>>
    /\ Extracted(arg[1]) = MARK

\* ---------------------------------------------------------------- C13
\* the run of task t has written an assistant message into thread th
Answered(t, th) ==
    \E i \in 1..Len(bthreads[th].msgs) :
        /\ bthreads[th].msgs[i].role = "assistant"
        /\ bthreads[th].msgs[i].run = t

C13_Step ==
    \A t \in Tasks :
        (/\ task[t].pc = "list" /\ task'[t].pc = "send"
         /\ ~Answered(t, task[t].tid)
         /\ \A u \in Tasks \ {t} : task[u].pc \in {"idle", "done"})
        => task'[t].reply = Fallback(variant)

\* C13: when the run of the current message has produced no assistant output
\* by the time the messages are listed (it failed, was cancelled, expired, or
\* is still in progress at the deadline), the reply is the fixed fallback
\* text, also when the thread holds assistant messages of earlier turns
\* (no other handler is running when the messages are listed).
C13_FallbackWithoutOutput == [][C13_Step]_vars

\* ---------------------------------------------------------------- C14
\* the prefix followed by the text
Whole(v, i) == i.prefix \o CleanReply(v, i.msgs)

\* C14: the reply returned is at most 1000 characters long, for every
\* extracted text and every prefix; the prefix counts toward the limit, and
\* the cut is plain: the reply is the first 1000 characters of the prefixed
\* text, or all of it when it is shorter.
C14_AtMostLimit ==
    res # None =>
        /\ Len(res) <= ReplyLimit
        /\ Len(res) = IF Len(Whole(variant, arg[1])) < ReplyLimit
                      THEN Len(Whole(variant, arg[1])) ELSE ReplyLimit
        /\ IsPrefix(res, Whole(variant, arg[1]))

\* a prefixed text longer than the limit was cut, and the characters of the
\* prefix are among those kept
C14_Witness ==
    /\ res # None
    /\ arg[1].prefix = <<"p">>
    /\ Len(CleanReply(variant, arg[1].msgs)) = ReplyLimit
    /\ Len(res) = ReplyLimit
    /\ res[1] = "p"

\* ---------------------------------------------------------------- C15
\* a citation marker starts somewhere in s
HasMarker(s) == \E i \in 1..Len(s) : MatchEnd(s, i) # 0

\* C15: the reply returned contains no citation marker (an opening bracket,
\* digits, a colon, a non-empty tag, a closing bracket), also when the
\* markers of the text are nested or adjacent, so that removing one brings
\* the pieces of another together (the prefix configured holds no marker).
C15_NoMarker ==
    (res # None /\ ~HasMarker(arg[1].prefix)) => ~HasMarker(res)

\* the bot returned a marker that the removal of a nested one put together
C15_BotLeavesMarker ==
    /\ variant = "bot"
    /\ res = <<CITE_OPEN, "1", ":", "b", CITE_CLOSE>>

\* ---------------------------------------------------------------- C16
\* a call to the backend made by run_assistant_and_get_reply failed
Orchestrating(tk) == tk.pc \in {"append", "run", "poll", "list"}

C16_Step ==
    \A t \in Tasks :
        (Orchestrating(task[t]) /\ task'[t].out = "error") =>
            outbox' = Append(outbox, [user |-> task[t].user,
                                      chat |-> task[t].chat,
                                      text |-> Fallback(variant)])

\* C16: when a call to the backend fails during the orchestration (the
\* append, the run creation, a poll or the listing), the buyer still gets
\* the fixed fallback reply.
C16_FallbackOnError == [][C16_Step]_vars

\* ---------------------------------------------------------------- C17
\* an incoming text of a buyer: a message event that has a chat id and an
\* account id, is of type text, was not written by the receiving account and
\* has a character that is not whitespace
BuyerWrote(e) ==
    /\ e.json /\ e.ptype = "message"
    /\ e.chat_id \notin {None, <<>>} /\ e.user_id \notin {None, <<>>}
    /\ e.mtype = "text"
    /\ e.author_id # e.user_id
    /\ e.text # None /\ \E k \in 1..Len(e.text) : ~IsSpace(e.text[k])

\* the handler goes on to the thread of the chat
Proceeds(tk) == tk.pc \in {"ensure_asst", "select"}

C17_Step ==
    \A t \in Tasks :
        /\ \A e \in Events :
              avito_webhook(t, e) =>
                 /\ Proceeds(task'[t]) => BuyerWrote(e) /\ task'[t].chat = e.chat_id
                 /\ ~Proceeds(task'[t]) =>
                       /\ ~BuyerWrote(e) \/ (variant = "bot" /\ ~botEnabled)
                       /\ task'[t].pc = "done"
        /\ (task[t].pc = "idle" /\ task'[t] # task[t]) =>
              \E e \in Events : avito_webhook(t, e)
        /\ task[t].pc = "done" => task'[t] = task[t]
        /\ (task[t].pc = "idle" /\ task'[t].pc = "done") =>
              /\ threads' = threads /\ outbox' = outbox
              /\ bthreads' = bthreads /\ runs' = runs

\* C17: an event leads to the thread lookup or creation, an append, a run
\* and a reply only if it is a message event with a chat id and an account
\* id, of type text, whose author is not the receiving account and whose text
\* is not blank after trimming; every other event is dropped: its handler
\* ends at once and no thread, message, run or reply comes of it.  The
\* account's own outgoing messages never trigger a reply.
C17_OnlyBuyerTexts == [][C17_Step]_vars

\* one handler dropped an event, the other one took a buyer's text and replied
C17_Witness ==
    \E t, u \in Tasks :
        /\ task[t].out = "dropped"
        /\ task[u].out = "sent"
        /\ Len(outbox) = 1

\* ---------------------------------------------------------------- C18
\* the position of a handler in handle() and run_assistant_and_get_reply
Rank(pc) ==
    CASE pc = "idle" -> 0
      [] pc = "ensure_asst" -> 1
      [] pc = "select" -> 2
      [] pc = "create" -> 3
      [] pc = "insert" -> 4
      [] pc = "append" -> 5
      [] pc = "instr" -> 6
      [] pc = "run" -> 7
      [] pc = "poll" -> 8
      [] pc = "list" -> 9
      [] pc = "send" -> 10
      [] pc = "done" -> 11

\* the user messages in all threads
UserMessages ==
    { <<th, i>> \in (DOMAIN bthreads) \X (1..(2 * NTasks)) :
         /\ i <= Len(bthreads[th].msgs)
         /\ bthreads[th].msgs[i].role = "user" }

Failed(t) == task'[t].pc = "done" /\ task'[t].out = "error"

\* the handler itself took a step (the history of the instructions kept
\* for a waiting handler is written by the steps of others)
Acts(t) == [task'[t] EXCEPT !.fresh = {}] # [task[t] EXCEPT !.fresh = {}]

C18_Step ==
    /\ \A t \in Tasks :
        /\ Acts(t) =>
              \/ Rank(task'[t].pc) > Rank(task[t].pc)
              \/ task[t].pc = "poll" /\ task'[t].pc = "poll"
        /\ (task[t].pc = "append" /\ Acts(t)) =>
              /\ Failed(t) \/ task'[t].pc \in {"instr", "run"}
              /\ Cardinality(UserMessages') =
                    Cardinality(UserMessages) + (IF Failed(t) THEN 0 ELSE 1)
        /\ (task[t].pc = "run" /\ Acts(t)) =>
              \/ Failed(t) /\ runs' = runs
              \/ /\ task'[t].pc = "poll"
                 /\ runs[t] = NoRun /\ runs'[t].status = "queued"
                 /\ \A u \in Tasks \ {t} : runs'[u] = runs[u]
        /\ (task[t].pc = "poll" /\ Acts(t)) =>
              Failed(t) \/ task'[t].pc \in {"poll", "list"}
        /\ (task[t].pc = "send" /\ Acts(t)) =>
              /\ task'[t].pc = "done"
              /\ Len(outbox') = Len(outbox) + (IF Failed(t) THEN 0 ELSE 1)
    /\ Cardinality(UserMessages') # Cardinality(UserMessages) =>
          \E t \in Tasks : task[t].pc = "append" /\ Acts(t)
    /\ outbox' # outbox =>
          \E t \in Tasks : task[t].pc = "send" /\ Acts(t)

C19_Bound ==
    \A t \in Tasks :
        /\ task[t].pc \in {"append", "instr", "run", "poll", "list"} =>
              /\ task[t].tid \in DOMAIN bthreads
              /\ bthreads[task[t].tid].chat = task[t].chat
              /\ threads[task[t].chat] = task[t].tid
        /\ task[t].pc \in {"poll", "list"} => runs[t].thread = task[t].tid

C19_Step ==
    \A t \in Tasks :
        /\ (task[t].pc = "append" /\ Acts(t)) =>
              \A th \in DOMAIN bthreads :
                 th # task[t].tid => bthreads'[th] = bthreads[th]
        /\ (task[t].pc = "list" /\ task'[t].pc = "send") =>
              /\ task'[t].chat = task[t].chat
              /\ task'[t].reply = FinalReply(variant, REPLY_PREFIX,
                                             bthreads[task[t].tid].msgs)
        /\ (task[t].pc = "send" /\ task'[t].out = "sent") =>
              /\ Len(outbox') = Len(outbox) + 1
              /\ outbox'[Len(outbox')].chat = task[t].chat
              /\ outbox'[Len(outbox')].text = task[t].reply
        /\ runs'[t] # runs[t] /\ runs[t] # NoRun =>
              \A th \in DOMAIN bthreads :
                 th # runs[t].thread => bthreads'[th] = bthreads[th]

\* C19: each run is tied to the thread of one chat: the append, the run
\* creation, the polls and the listing of a handler all use the thread the
\* handler holds for its chat, the output of the run goes to that thread, and
\* the reply read from it is sent to the same chat; with handlers of
\* different chats running at once, none appends to, polls, reads or sends
\* for the chat of another.
C19_OwnThread == [][C19_Bound' /\ C19_Step]_vars

\* two handlers of different chats are waiting for their runs at once
C19_Witness ==
    \E t, u \in Tasks :
        /\ task[t].pc = "poll" /\ task[u].pc = "poll"
        /\ task[t].chat # task[u].chat
        /\ runs[t].thread # runs[u].thread

\* ---------------------------------------------------------------- C20
\* the run of task t is in flight
InFlight(t) == runs[t].status \in {"queued", "in_progress"}

\* no two runs are in flight on one thread
OneRunPerThread ==
    \A t, u \in Tasks :
        (t # u /\ InFlight(t) /\ InFlight(u)) => runs[t].thread # runs[u].thread

\* an append is made only when no other handler of the chat is between its
\* own append and its end
C20_Step ==
    \A u \in Tasks :
        (task[u].pc = "append" /\ Acts(u)) =>
            \A t \in Tasks \ {u} :
                task[t].chat = task[u].chat =>
                    task[t].pc \notin {"instr", "run", "poll", "list", "send"}

\* C20: the messages of one chat are handled one after the other: the append
\* and the run of the second message do not start before the handler of the
\* first has finished, so two runs are never in flight on the same thread.
C20_OneAfterAnother == [][C20_Step /\ OneRunPerThread']_vars

\* the handlers of two messages of one chat are both between their append
\* and their reply
C20_Overlap ==
    \E t, u \in Tasks :
        /\ t # u
        /\ task[t].chat = task[u].chat
        /\ task[t].pc = "poll" /\ task[u].pc = "poll"
        /\ InFlight(t) /\ InFlight(u)
        /\ runs[t].thread = runs[u].thread

\* ---------------------------------------------------------------- C21
\* document i is held by the Files API
StoredDoc(fs, i) == i \in 1..Len(fs) /\ fs[i].stored

C21_Step ==
    \A i \in FileIds :
        (/\ delete_file(i)
         /\ StoredDoc(files, i)
         /\ resp'.code = 200)
        => ~StoredDoc(files', i)

\* C21: delete unlinks the document from the vector store first and then
\* always goes on to delete the stored document, whether the unlink succeeded
\* or failed: a delete that reports success has not left the stored document
\* in place.
C21_DeletesStored == [][C21_Step]_vars

\* admin reported success for a document it only unlinked
C21_LeftStored ==
    /\ variant = "admin"
    /\ resp.op = "delete_file" /\ resp.code = 200
    /\ \E i \in 1..Len(files) : files[i].stored /\ files[i].vs = "none"

\* ---------------------------------------------------------------- C22
\* the ids of the rows of a response
Listed(r) == { r.data[k].id : k \in 1..Len(r.data) }

C22_Step ==
    /\ \A i \in FileIds :
          (/\ delete_file(i)
           /\ StoredDoc(files, i) /\ ~StoredDoc(files', i))
          => resp'.code = 200
    /\ (list_files /\ resp'.code = 200) =>
          \A i \in Listed(resp') : StoredDoc(files, i)

FromIndex == IF variant = "admin" THEN assistantId # NoId ELSE envVs # NoId

\* one row for each document of a set, none twice
OneRowEach(r, docs) ==
    /\ Listed(r) = docs
    /\ Len(r.data) = Cardinality(docs)

C23_Step ==
    (list_files /\ resp'.code = 200) =>
        IF FromIndex
        THEN /\ OneRowEach(resp', Attached(files))
             /\ \A k \in 1..Len(resp'.data) :
                   LET row == resp'.data[k] IN
                   /\ row.status = files[row.id].vs
                   /\ row.meta => row.filename = FileName(row.id)
                   /\ ~row.meta =>
                         row.filename = IF variant = "bot" THEN <<"id", row.id>>
                                        ELSE None
        ELSE IF variant = "bot"
        THEN /\ OneRowEach(resp', {i \in 1..Len(files) : files[i].stored})
             /\ \A k \in 1..Len(resp'.data) :
                   resp'.data[k].meta /\ resp'.data[k].status = "processed"
        ELSE resp'.data = <<>>

\* C23: a listing taken from the vector store has exactly one entry for each
\* document attached to it, whatever subset of the files.retrieve calls
\* fails: a failed lookup never fails or shortens the listing and leaves the
\* size and the creation time of its entry absent, and its name absent in
\* admin and equal to the document id in bot; the status of each entry is the
\* status in the vector store.  The bot without VECTOR_STORE_ID lists the
\* stored documents with the status of the Files API; admin without an
\* assistant id lists nothing.
C23_OneEntryEach == [][C23_Step]_vars

\* two attached documents are listed although both lookups failed
C23_Witness ==
    /\ resp.op = "list_files" /\ resp.code = 200
    /\ Len(resp.data) = 2
    /\ Attached(files) = {1, 2}
    /\ \A k \in 1..2 : ~resp.data[k].meta

C23_Absent_Step ==
    (list_files /\ resp'.code = 200) =>
        /\ OneRowEach(resp', Attached(files))
        /\ \A k \in 1..Len(resp'.data) :
              /\ resp'.data[k].status = files[resp'.data[k].id].vs
              /\ ~resp'.data[k].meta => resp'.data[k].filename = None

\* C23 as the specification words it: one entry per document attached to the
\* vector store, the status that of the vector store, and the name, size and
\* creation time absent from the entry of a failed lookup.
C23_NameAbsent == [][C23_Absent_Step]_vars

\* ---------------------------------------------------------------- C24
\* an error detail is there and is not empty
HasDetail(x) == x \notin {None, Missing, <<>>}

C24_Step ==
    /\ (upload_files /\ resp'.code = 200 /\ resp'.data # <<>>) =>
          files'[resp'.data[1].id].vs = "in_progress"
    /\ (list_files /\ resp'.code = 200) =>
          \A k \in 1..Len(resp'.data) :
             LET row == resp'.data[k] IN
             /\ files[row.id].vs \in {"completed", "failed"} =>
                   row.status = files[row.id].vs
             /\ row.status = "failed" => HasDetail(row.error)

\* C24: an upload returns at once, with the document pending (its indexing
\* in progress) and without waiting for the indexing to end; once the
\* indexing has ended every later listing shows the document as ready
\* (completed) or failed, and every entry shown as failed carries a
\* non-empty error detail.
C24_PendingThenSettled == [][C24_Step]_vars

\* the bot answered an upload only when the indexing had ended
C24_UploadWaited ==
    /\ variant = "bot"
    /\ resp.op = "upload_files" /\ resp.code = 200 /\ resp.data # <<>>
    /\ resp.data[1].status \in {"completed", "failed"}

\* admin listed a failed document without an error detail
C24_FailedWithoutDetail ==
    /\ variant = "admin"
    /\ resp.op = "list_files" /\ resp.code = 200
    /\ \E k \in 1..Len(resp.data) :
          resp.data[k].status = "failed" /\ ~HasDetail(resp.data[k].error)

\* ---------------------------------------------------------------- C25
\* C25: the reply is post-processed in the order: citation markers removed
\* (bot), prefix put in front, cut at 1000 characters.  With a prefix shorter
\* than 1000 characters the reply starts with the whole prefix, the removal
\* of the markers does not touch the prefix, and the fallback text gets the
\* prefix as well.
C25_Order ==
    res # None =>
        LET i == arg[1] IN
        /\ Len(i.prefix) < ReplyLimit => IsPrefix(i.prefix, res)
        /\ Len(i.prefix) + Len(CleanReply(variant, i.msgs)) <= ReplyLimit =>
              res = i.prefix \o CleanReply(variant, i.msgs)
        /\ Extracted(i) = <<>> =>
              res = Cut(i.prefix \o Fallback(variant), ReplyLimit)

\* the bot removed a marker from the text and kept the one of the prefix
C25_Witness ==
    /\ variant = "bot"
    /\ res # None
    /\ arg[1].prefix = MARK \o <<"p">>
    /\ Extracted(arg[1]) = MARK \o <<"a">>
    /\ res = MARK \o <<"p", "a">>

\* ---------------------------------------------------------------- C26
\* the positions of the 10 most recent messages of a thread
Window(msgs) == { k \in 1..Len(msgs) : k > Len(msgs) - ListLimit }

\* the text segments of a message, in their order
Segments(m) == SelectSeq(m.parts, LAMBDA p : p.type = "text")

\* the text of a message: its segments joined by newlines and trimmed
TextOf(m) == strip(Join([k \in 1..Len(Segments(m)) |-> Segments(m)[k].value]))

\* the most recent of a set of positions
Newest(ks) == CHOOSE k \in ks : \A j \in ks : j <= k

\* the text of the newest message in the window among those that satisfy
\* pick, empty when there is none
TextOfNewest(msgs, pick(_)) ==
    LET ks == { k \in Window(msgs) : pick(msgs[k]) } IN
    IF ks = {} THEN <<>> ELSE TextOf(msgs[Newest(ks)])

IsAssistant(m) == m.role = "assistant"
AssistantWithText(m) == m.role = "assistant" /\ Segments(m) # <<>>

RepliesTo(box, c) == { k \in 1..Len(box) : box[k].chat = c }

C27_Step ==
    /\ \A t \in Tasks, e \in Events :
          (/\ task[t].pc = "idle" /\ task'[t] # task[t]
           /\ avito_webhook(t, e)
           /\ BuyerWrote(e)
           /\ variant = "admin" \/ botEnabled)
          => /\ Proceeds(task'[t])
             /\ task'[t].chat = e.chat_id
    /\ \A t \in Tasks :
          /\ (task[t].pc = "append" /\ Acts(t) /\ ~Failed(t)) =>
                Cardinality(UserMessages') = Cardinality(UserMessages) + 1
          /\ (task[t].pc = "run" /\ Acts(t) /\ ~Failed(t)) =>
                runs[t] = NoRun /\ runs'[t].status = "queued"
          /\ (task[t].pc = "send" /\ Acts(t) /\ ~Failed(t)) =>
                Cardinality(RepliesTo(outbox', task[t].chat)) =
                    Cardinality(RepliesTo(outbox, task[t].chat)) + 1

\* C27: no record of handled messages is kept: a delivery of an accepted
\* buyer event is taken up whatever was delivered before, and each delivery
\* that is taken up appends its own user turn, starts its own run and sends
\* its own reply, so that the same event delivered twice puts two replies in
\* the chat.
C27_NoDeduplication == [][C27_Step]_vars

\* the same event was delivered twice: two user turns in the thread of the
\* chat, two runs, two replies to the chat
C27_Witness ==
    /\ \A t \in Tasks : task[t].out = "sent" /\ runs[t].status = "completed"
    /\ Len(bthreads) = 1
    /\ Cardinality(UserMessages) = 2
    /\ Cardinality(RepliesTo(outbox, bthreads[1].chat)) = 2

\* ---------------------------------------------------------------- C28
\* the next delivery can be received
CanReceive ==
    \A t \in Tasks :
        (task[t].pc = "idle" /\ (t = 1 \/ task[t - 1].pc # "idle")) =>
            \A e \in Events : ENABLED avito_webhook(t, e)

C28_Step ==
    \A t \in Tasks :
        /\ (task[t].pc = "idle" /\ task'[t] # task[t]) => task'[t].ack = "ok"
        /\ task[t].pc # "idle" => task'[t].ack = task[t].ack
        /\ (Acts(t) /\ Failed(t)) =>
              /\ \A u \in Tasks \ {t} : ~Acts(u)
              /\ outbox' = outbox
        /\ CanReceive'

\* C28: the webhook answers every delivery with ok, whatever the body
\* (unparsable JSON, a rejected event, an accepted one) and whatever happens
\* in the handler later: the handler runs after the answer, an error raised
\* in it is caught, changes neither the answer nor any other handler, and
\* deliveries that come later are still received.
C28_AlwaysAcknowledged == [][C28_Step]_vars

\* a handler failed, the delivery it came from was answered ok, and a later
\* delivery was handled up to its reply
C28_Witness ==
    \E t, u \in Tasks :
        /\ task[t].out = "error" /\ task[t].ack = "ok"
        /\ task[u].out = "sent" /\ task[u].ack = "ok"
        /\ t < u

\* ---------------------------------------------------------------- C29
\* the bot server is switched off
Disabled == variant = "bot" /\ ~botEnabled

\* a handler that was dispatched and has not ended
Running(t) == task[t].pc \notin {"idle", "done"}

C29_Step ==
    /\ \A t \in Tasks :
        /\ \A e \in Events :
              avito_webhook(t, e) =>
                 /\ Disabled =>
                       /\ ~Proceeds(task'[t])
                       /\ UNCHANGED <<threads, bthreads, runs, outbox>>
                 /\ (~Disabled /\ BuyerWrote(e)) => Proceeds(task'[t])
        /\ Running(t) =>
              /\ Acts(t) => botEnabled' = botEnabled
              /\ task'[t].out # "disabled"
    /\ botEnabled' # botEnabled =>
          /\ resp'.op = "put_settings"
          /\ task' = task

\* C29: while the bot server is disabled (BOT_ENABLED false, from the
\* environment or set by a settings request), a delivery creates no thread,
\* appends no message, starts no run and sends no reply; a delivery received
\* after the bot is enabled again is handled as usual.  The flag is read
\* only when a delivery is received: switching it stops no handler that was
\* dispatched before, and such a handler can always take its next step.
C29_DisabledHandlesNothing == [][C29_Step]_vars

\* the first delivery came while the bot was disabled and was dropped; the
\* bot was enabled and the second delivery dispatched; the bot is disabled
\* again and the handler of the second delivery is about to send its reply
C29_Witness ==
    /\ Disabled
    /\ task[1].out = "disabled"
    /\ task[2].pc = "send"
    /\ calls = MaxSwitches

\* a delivery dropped while the bot was disabled, and one answered after it
C29_AnsweredAfter ==
    /\ task[1].out = "disabled"
    /\ task[2].out = "sent"
    /\ outbox # <<>>

\* ---------------------------------------------------------------- C30
\* one of the admin calls that go through ensure_vector_store_attached
EnsuringCall == get_settings \/ list_files \/ upload_files

C30_Step ==
    (variant = "admin" /\ EnsuringCall) =>
        LET stored == db_get(kv, "vector_store_id")
            stored1 == db_get(kv', "vector_store_id")
        IN  IF assistantId = NoId
            THEN /\ UNCHANGED <<kv, nVs, asst>>
                 /\ stored = NoId
                 /\ resp'.code = 200 => resp'.data = <<>>
            ELSE /\ nVs' <= 1
                 /\ stored # NoId => stored1 = stored
                 /\ resp'.code = 200 =>
                       stored1 # NoId /\ stored1 \in asst'.vs
                 /\ asst.vs \subseteq asst'.vs

\* C30: admin server, calls made one after another (settings GET, list,
\* upload).  With an assistant id configured at most one vector store is
\* ever created, the stored vector_store_id never changes once it is set,
\* after every call that succeeded the stored id is among the vector stores
\* attached to the assistant, and attaching removes no id that was attached
\* before.  Without an assistant id nothing is created or stored, and the
\* listing is empty.
C30_OneStoreKeptAttached == [][C30_Step]_vars

====
